---- MODULE Spec2Model ----
(***************************************************************************)
(* A model of the bari event-driven JSON parser (src/bari.go, lines 1-588, *)
(* the current generation of the engine).                                  *)
(*                                                                         *)
(* The worker that runs Parser.Parse is a state machine: `pc' is the       *)
(* statement the worker is at, `stack' the continuations of the enclosing  *)
(* readObject / readArray calls.  Every worker action performs exactly one *)
(* readByte (the only operation that blocks on the byte source) and then   *)
(* runs the code up to the next readByte, the next channel send, or the    *)
(* return of Parse.  The byte source delivers its bytes one at a time; the *)
(* bytes delivered so far are kept in p.br.data, so that a pushed-back     *)
(* byte is read again unchanged.                                           *)
(***************************************************************************)
EXTENDS Integers, Sequences, FiniteSets, TLC

VARIABLES
    p,          \* the Parser struct: br, err, unreadChangesLine, line, position
    buf,        \* the package-level scratch buffer `var buf bytes.Buffer'
    bbuf,       \* readBoolean's local buffer
    isFloat,    \* readNumber's local flag
    pc,         \* the worker's position in the code
    stack,      \* continuations of the calls in progress, innermost first
    ch,         \* the unbuffered channel: the event being handed over, if any
    received,   \* the events the consumer has taken, in order
    docStart,   \* history: the bytes read before the current top-level value
    profile,    \* the bytes the byte source may deliver, and how many
    consumer,   \* "receiving", or "stopped" once the consumer has given up
    w2,         \* a second Parser with its worker, channel and consumer
    mem         \* what only a data race on buf shows: see NoRace

vars == <<p, buf, bbuf, isFloat, pc, stack, ch, received, docStart, profile,
          consumer, w2, mem>>

----------------------------------------------------------------------------
(* Bytes of the input that the code names.                                 *)
NUL == 0
TAB == 9
LF == 10
VT == 11
FF == 12
CR == 13
SPACE == 32
QUOTE == 34
APOSTROPHE == 39
PLUS == 43
COMMA == 44
MINUS == 45
DOT == 46
SLASH == 47
ZERO == 48
ONE == 49
NINE == 57
COLON == 58
UPPER_E == 69
LBRACKET == 91
BACKSLASH == 92
RBRACKET == 93
LOWER_A == 97
LOWER_B == 98
LOWER_E == 101
LOWER_F == 102
LOWER_L == 108
LOWER_N == 110
LOWER_R == 114
LOWER_S == 115
LOWER_T == 116
LOWER_U == 117
LBRACE == 123
RBRACE == 125
NEL == 133
NBSP == 160

\* var eof = byte(0): what readByte returns when the source has no byte
eof == 0

----------------------------------------------------------------------------
(* Bounds of the exploration.                                              *)
MaxLen == 7         \* bytes delivered by the source, structural profile
MaxStrLen == 1      \* raw bytes between the quotes of one string
MaxNumLen == 3      \* bytes of one numeric run
MaxWs == 2          \* whitespace bytes in one input

----------------------------------------------------------------------------
(* Errors and events.  Records have one shape each so that any two can be  *)
(* compared.                                                               *)

\* the nil error
Nil == [type |-> "nil", Message |-> "", arg |-> -1, text |-> <<>>,
        Line |-> 0, Position |-> 0]

\* io.EOF, and any other error of the byte source
IoEOF == [Nil EXCEPT !.type = "io.EOF"]
IoErr == [Nil EXCEPT !.type = "io.err"]

\* ParseError{Message, Line, Position}; Message is the format string, arg the
\* byte formatted by %c (-1: none), text the lexeme quoted by a strconv error
ParseError(msg, arg, text, line, position) ==
    [type |-> "ParseError", Message |-> msg, arg |-> arg, text |-> text,
     Line |-> line, Position |-> position]

errUnexpectedEOF == "unexpected end of file"

\* Event.Value: nil, string (s: its bytes), int64 (neg, s: decimal digits),
\* float64 (neg, s: significant decimal digits, e: power of ten), bool (b)
NilValue == [t |-> "nil", s |-> <<>>, neg |-> FALSE, e |-> 0, b |-> FALSE]
StringValue(bytes) == [NilValue EXCEPT !.t = "string", !.s = bytes]
BoolValue(b) == [NilValue EXCEPT !.t = "bool", !.b = b]

Event(typ, value, err) == [Type |-> typ, Value |-> value, Error |-> err]

----------------------------------------------------------------------------
(* The cursor.                                                             *)

isDigit(b) == b >= ZERO /\ b <= NINE

isSpace(b) == b \in {TAB, LF, VT, FF, CR, SPACE, NEL, NBSP}

\* NewParser: a reader over a source that has delivered nothing yet, line 1
\* prev and misuse are history: the last cursor operation, and whether an
\* unreadByte ever followed anything but a readByte that returned a byte.
NewParser ==
    [data |-> <<>>, off |-> 0, last |-> FALSE, src |-> "open",
     err |-> Nil, unreadChangesLine |-> FALSE, line |-> 1, position |-> 0,
     prev |-> "none", misuse |-> FALSE]

\* What br.ReadByte may return: a byte with a nil error, or an error.
ByteRead(r) == [r |-> r, err |-> Nil]
FailedRead(e) == [r |-> 0, err |-> e]

\* readByte: the new Parser state, given what br.ReadByte returned
readByte(q, o) ==
    IF o.err # Nil
    THEN [q EXCEPT !.src = o.err.type, !.err = o.err, !.prev = "failed"]
    ELSE [q EXCEPT
            !.data = IF q.off < Len(q.data) THEN q.data ELSE Append(q.data, o.r),
            !.off = q.off + 1,
            !.last = TRUE,
            !.prev = "read",
            !.position = IF o.r = LF THEN 0 ELSE q.position + 1,
            !.line = IF o.r = LF THEN q.line + 1 ELSE q.line,
            !.unreadChangesLine = (o.r = LF)]

\* the byte readByte returns
readByteResult(o) == IF o.err # Nil THEN eof ELSE o.r

\* unreadByte; br.UnreadByte does nothing unless the last call read a byte
unreadByte(q) ==
    [q EXCEPT !.position = IF q.unreadChangesLine THEN 0 ELSE q.position - 1,
              !.line = IF q.unreadChangesLine THEN q.line - 1 ELSE q.line,
              !.off = IF q.last THEN q.off - 1 ELSE q.off,
              !.last = FALSE,
              !.prev = "unread",
              !.misuse = q.misuse \/ q.prev # "read"]

serr(q, format, arg) ==
    [q EXCEPT !.err = ParseError(format, arg, <<>>, q.line, q.position)]

serr2(q, msg, text) ==
    [q EXCEPT !.err = ParseError(msg, -1, text, q.line, q.position)]

\* a resetState that leaves the counters alone
resetState_None(q) == q

resetState(q) == [q EXCEPT !.line = 1, !.position = 0]

\* a getError that forgets the io.EOF case
getError_Raw(q) == q.err

getError(q) == IF q.err = IoEOF THEN Nil ELSE q.err

----------------------------------------------------------------------------
(* strconv.ParseInt(s, 10, 64) and strconv.ParseFloat(s, 64) on a numeric  *)
(* run.  Values are kept as decimal digit sequences, so no width is lost.  *)

errSyntax == "invalid syntax"
errRange == "value out of range"

DigitsOf(s) == [i \in 1..Len(s) |-> s[i] - ZERO]

\* d without the zeros it starts with, but for the last digit
StripLeadingZeros(d) ==
    IF d = <<>> THEN d
    ELSE LET n == Len(d)
             first == CHOOSE i \in 1..n :
                         /\ d[i] # 0 \/ i = n
                         /\ \A j \in 1..i - 1 : d[j] = 0
         IN  SubSeq(d, first, n)

\* d without the zeros it ends with
StripTrailingZeros(d) ==
    LET n == Len(d)
        last == CHOOSE i \in 0..n :
                    /\ i = 0 \/ d[i] # 0
                    /\ \A j \in i + 1..n : d[j] = 0
    IN  SubSeq(d, 1, last)

\* a < b for digit sequences of equal length
DigitsLess(a, b) ==
    \E i \in 1..Len(a) :
        /\ a[i] < b[i]
        /\ \A j \in 1..i - 1 : a[j] = b[j]

\* 1<<63, the magnitude of the smallest int64
MinInt64Digits == <<9, 2, 2, 3, 3, 7, 2, 0, 3, 6, 8, 5, 4, 7, 7, 5, 8, 0, 8>>

IntValue(neg, d) ==
    [t |-> "int64", s |-> d, neg |-> neg /\ d # <<0>>, e |-> 0, b |-> FALSE]

\* 1<<64 - 1, the largest uint64
MaxUint64Digits ==
    <<1, 8, 4, 4, 6, 7, 4, 4, 0, 7, 3, 7, 0, 9, 5, 5, 1, 6, 1, 5>>

\* a < b for the numbers that the digit sequences a and b write
NatLess(a, b) ==
    LET x == StripLeadingZeros(a)
        y == StripLeadingZeros(b)
    IN  Len(x) < Len(y) \/ (Len(x) = Len(y) /\ DigitsLess(x, y))

\* the length of the run of digits that s starts with
DigitRunLen(s) ==
    CHOOSE k \in 0..Len(s) :
        /\ \A i \in 1..k : isDigit(s[i])
        /\ k = Len(s) \/ ~isDigit(s[k + 1])

\* a ParseInt without the range check
ParseInt_Unbounded(s) ==
    LET signed == s # <<>> /\ s[1] \in {PLUS, MINUS}
        body == IF signed THEN Tail(s) ELSE s
    IN  IF body = <<>> \/ \E i \in 1..Len(body) : ~isDigit(body[i])
        THEN [err |-> errSyntax, v |-> NilValue]
        ELSE [err |-> "",
              v |-> IntValue(signed /\ s[1] = MINUS,
                             StripLeadingZeros(DigitsOf(body)))]

\* ParseUint reads the bytes from the left and returns at the first that
\* is no digit (invalid syntax) or that takes the number above 1<<64 - 1
\* (value out of range), whichever comes first; ParseInt then tests the
\* int64 range.
ParseInt(s) ==
    LET signed == s # <<>> /\ s[1] \in {PLUS, MINUS}
        neg == signed /\ s[1] = MINUS
        body == IF signed THEN Tail(s) ELSE s
        run == DigitsOf(SubSeq(body, 1, DigitRunLen(body)))
        d == StripLeadingZeros(run)
        tooBig == \/ Len(d) > Len(MinInt64Digits)
                  \/ /\ Len(d) = Len(MinInt64Digits)
                     /\ IF neg THEN DigitsLess(MinInt64Digits, d)
                               ELSE ~DigitsLess(d, MinInt64Digits)
    IN  IF body = <<>> THEN [err |-> errSyntax, v |-> NilValue]
        ELSE IF run # <<>> /\ NatLess(MaxUint64Digits, run)
             THEN [err |-> errRange, v |-> NilValue]
        ELSE IF Len(run) < Len(body) THEN [err |-> errSyntax, v |-> NilValue]
        ELSE IF tooBig THEN [err |-> errRange, v |-> NilValue]
        ELSE [err |-> "", v |-> IntValue(neg, d)]

\* the end of the mantissa that starts after index i: digits and one '.'
MantissaEnd(s, i, sawdot) ==
    LET dots(j) == Cardinality({k \in i + 1..j : s[k] = DOT})
        most == IF sawdot THEN 0 ELSE 1
    IN  CHOOSE j \in i..Len(s) :
            /\ \A k \in i + 1..j : isDigit(s[k]) \/ s[k] = DOT
            /\ dots(j) <= most
            /\ \/ j = Len(s)
               \/ ~isDigit(s[j + 1]) /\ (s[j + 1] # DOT \/ dots(j) = most)

\* the exponent digits d as a number; strconv stops accumulating at 10000
RECURSIVE ExpValue(_, _)
ExpValue(d, acc) ==
    IF d = <<>> THEN acc
    ELSE ExpValue(Tail(d), IF acc < 10000 THEN acc * 10 + d[1] ELSE acc)

\* the float64 (-1)^neg * d * 10^e; a zero keeps its sign.  Every float64
\* has a finite decimal expansion, so d and e name it exactly.
FloatValue(neg, d, e) ==
    [t |-> "float64", s |-> d, neg |-> neg, e |-> e, b |-> FALSE]

(* Arithmetic on natural numbers written as digit sequences, the most      *)
(* significant digit first.                                                *)

Zeros(n) == [i \in 1..n |-> 0]

\* 2 * d: the carry into a digit is 1 exactly when the next digit is 5 or more
Double(d) ==
    LET c(i) == IF i <= Len(d) /\ d[i] >= 5 THEN 1 ELSE 0
        body == [i \in 1..Len(d) |-> ((2 * d[i]) % 10) + c(i + 1)]
    IN  (IF c(1) = 1 THEN <<1>> ELSE <<>>) \o body

\* d \div 2
Halve(d) ==
    StripLeadingZeros(
        [i \in 1..Len(d) |->
            (d[i] + 10 * (IF i > 1 THEN d[i - 1] % 2 ELSE 0)) \div 2])

\* 5 * d
Times5(d) == Halve(d \o <<0>>)

\* a - b, for a >= b
NatSub(a, b) ==
    LET n == Len(a)
        y == Zeros(n - Len(b)) \o b
        borrow(i) == \E j \in i + 1..n :
                        /\ a[j] < y[j]
                        /\ \A l \in i + 1..j - 1 : a[l] = y[l]
    IN  StripLeadingZeros(
            [i \in 1..n |->
                (a[i] - y[i] - (IF borrow(i) THEN 1 ELSE 0) + 10) % 10])

\* d + 1
Incr(d) ==
    LET n == Len(d)
        k == CHOOSE k \in 0..n :
                /\ \A i \in n - k + 1..n : d[i] = 9
                /\ k = n \/ d[n - k] # 9
    IN  IF k = n THEN <<1>> \o Zeros(n)
        ELSE SubSeq(d, 1, n - k - 1) \o <<d[n - k] + 1>> \o Zeros(k)

\* d * 2^n and d * 5^n, n times in two halves
RECURSIVE DoubleN(_, _)
DoubleN(d, n) ==
    IF n = 0 \/ d = <<0>> THEN d
    ELSE IF n = 1 THEN Double(d)
    ELSE DoubleN(DoubleN(d, n \div 2), n - n \div 2)

RECURSIVE Times5N(_, _)
Times5N(d, n) ==
    IF n = 0 \/ d = <<0>> THEN d
    ELSE IF n = 1 THEN Times5(d)
    ELSE Times5N(Times5N(d, n \div 2), n - n \div 2)

(* The float64 nearest to a decimal, as strconv.ParseFloat returns it.     *)

MantBits == 53          \* the bits of a float64 mantissa, the hidden one included
MinExp == -1022         \* the exponent of the smallest normal float64
MaxExp == 1023          \* the exponent of the largest float64

\* 1<<53
TwoTo53 == <<9, 0, 0, 7, 1, 9, 9, 2, 5, 4, 7, 4, 0, 9, 9, 2>>

\* n * 2^e < d, and n * 2^e <= d
ScaledLess(n, e, d) ==
    IF e >= 0 THEN NatLess(DoubleN(n, e), d) ELSE NatLess(n, DoubleN(d, -e))

\* the e with 2^e <= sig * 10^scale < 2^(e + 1), where 0.sig * 10^top is the
\* same number: it lies between (top - 1) * log2(10) and top * log2(10),
\* and 3.321 < log2(10) < 3.322
BinaryExponent(sig, scale, top) ==
    LET n == IF scale > 0 THEN sig \o Zeros(scale) ELSE sig
        d == IF scale < 0 THEN <<1>> \o Zeros(-scale) ELSE <<1>>
        lo == IF top >= 1 THEN ((top - 1) * 3321) \div 1000
                          ELSE ((top - 1) * 3322) \div 1000 - 1
        hi == IF top >= 0 THEN (top * 3322) \div 1000 ELSE (top * 3321) \div 1000
    IN  CHOOSE e \in lo..hi :
            \* d * 2^e <= n < d * 2^(e + 1)
            /\ ~ScaledLess(n, -e, d)
            /\ ScaledLess(n, -(e + 1), d)

\* one more bit of q.n/d < 2 after the bits that write q.m: the bit is 1
\* when what is left is d or more, and what is left less the bit is doubled
QuotBit(q, d) ==
    IF NatLess(q.n, d) THEN [m |-> Double(q.m), n |-> Double(q.n)]
    ELSE [m |-> Incr(Double(q.m)), n |-> Double(NatSub(q.n, d))]

\* k more bits, in two halves; when nothing is left, the bits are 0
RECURSIVE Quot(_, _, _)
Quot(q, d, k) ==
    IF k = 0 THEN q
    ELSE IF q.n = <<0>> THEN [m |-> DoubleN(q.m, k), n |-> q.n]
    ELSE IF k = 1 THEN QuotBit(q, d)
    ELSE Quot(Quot(q, d, k \div 2), d, k - k \div 2)

\* the float64 m * 2^e2 written as a decimal, or infinity when it is 2^1024;
\* e is the exponent of the number that was rounded to it
Float64Decimal(m, e, e2) ==
    LET exact == IF e2 >= 0 THEN DoubleN(m, e2) ELSE Times5N(m, -e2)
        digits == StripTrailingZeros(exact)
    IN  IF e > MaxExp \/ (e = MaxExp /\ m = TwoTo53)
        THEN [inf |-> TRUE, s |-> <<>>, e |-> 0]
        ELSE IF e - MinExp + MantBits < 0 \/ m = <<0>>
        THEN [inf |-> FALSE, s |-> <<0>>, e |-> 0]
        ELSE [inf |-> FALSE, s |-> digits,
              e |-> (IF e2 >= 0 THEN 0 ELSE e2) + Len(exact) - Len(digits)]

\* the mantissa nearest to the quotient whose first prec bits write q.m and
\* whose rest is q.n / d: up when the rest is above a half, or is a half and
\* q.m is odd
RoundToEven(q, d, e, prec) ==
    LET half == ~NatLess(q.n, d)
        sticky == q.n # d
        odd == q.m[Len(q.m)] % 2 = 1
    IN  Float64Decimal(IF half /\ (sticky \/ odd) THEN Incr(q.m) ELSE q.m,
                       e, e - prec + 1)

\* the float64 nearest to n0 / d0, which lies in [2^e, 2^(e + 1)); a number
\* below the normal range has fewer than MantBits bits
Float64Near(n0, d0, e, prec) ==
    LET d == IF e > 0 THEN DoubleN(d0, e) ELSE d0
    IN  RoundToEven(Quot([m |-> <<0>>,
                          n |-> IF e < 0 THEN DoubleN(n0, -e) ELSE n0], d, prec),
                    d, e, prec)

\* the bits of the mantissa of a float64 in [2^e, 2^(e + 1))
Precision(e) ==
    IF e >= MinExp THEN MantBits
    ELSE IF e - MinExp + MantBits > 0 THEN e - MinExp + MantBits
    ELSE 0

Float64At(sig, scale, e) ==
    Float64Near(IF scale > 0 THEN sig \o Zeros(scale) ELSE sig,
                IF scale < 0 THEN <<1>> \o Zeros(-scale) ELSE <<1>>,
                e, Precision(e))

\* the float64 nearest to sig * 10^scale = 0.sig * 10^top, ties to the even
\* mantissa; sig has no zero at either end.  inf: the decimal rounds to
\* infinity.
Float64Of(sig, scale, top) ==
    Float64At(sig, scale, BinaryExponent(sig, scale, top))

\* the decimals 0.sig * 10^top with top above MaxTop are 1e309 or more, those
\* with top below MinTop less than 1e-324
MaxTop == 309
MinTop == -323

\* what ParseFloat returns for the float64 f: infinity is a range error
FloatResult(neg, f) ==
    IF f.inf THEN [err |-> errRange, v |-> NilValue]
    ELSE [err |-> "", v |-> FloatValue(neg, f.s, f.e)]

\* Decimal syntax only: a hexadecimal mantissa ("0x1.8p1"), underscores
\* between digits, "inf" and "nan" need bytes that readNumber never writes
\* to buf.
ParseFloat(s) ==
    LET signed == s # <<>> /\ s[1] \in {PLUS, MINUS}
        neg == signed /\ s[1] = MINUS
        i0 == IF signed THEN 1 ELSE 0
        i1 == MantissaEnd(s, i0, FALSE)
        mant == SubSeq(s, i0 + 1, i1)
        dots == {i \in 1..Len(mant) : mant[i] = DOT}
        nd == Len(mant) - Cardinality(dots)
        dp == IF dots = {} THEN nd ELSE (CHOOSE i \in dots : TRUE) - 1
        md == DigitsOf(SelectSeq(mant, isDigit))
        hasExp == i1 < Len(s) /\ s[i1 + 1] \in {LOWER_E, UPPER_E}
        esigned == hasExp /\ i1 + 1 < Len(s) /\ s[i1 + 2] \in {PLUS, MINUS}
        eneg == esigned /\ s[i1 + 2] = MINUS
        i2 == IF esigned THEN i1 + 2 ELSE i1 + 1
        edig == SubSeq(s, i2 + 1, Len(s))
        expOk == edig # <<>> /\ \A i \in 1..Len(edig) : isDigit(edig[i])
        ev == IF hasExp /\ expOk
              THEN (IF eneg THEN -1 ELSE 1) * ExpValue(DigitsOf(edig), 0) ELSE 0
        sig == StripTrailingZeros(StripLeadingZeros(md))
        lead == Len(StripLeadingZeros(md))
        \* the value is 0.sig * 10^top
        top == dp - (nd - lead) + ev
        wellFormed == /\ nd > 0
                      /\ IF hasExp THEN expOk ELSE i1 = Len(s)
    IN  IF ~wellFormed THEN [err |-> errSyntax, v |-> NilValue]
        ELSE IF sig = <<>> THEN [err |-> "", v |-> FloatValue(neg, <<0>>, 0)]
        \* 1e309 and more is above every float64, less than 1e-324 below
        \* half the smallest
        ELSE IF top > MaxTop THEN [err |-> errRange, v |-> NilValue]
        ELSE IF top < MinTop THEN [err |-> "", v |-> FloatValue(neg, <<0>>, 0)]
        ELSE FloatResult(neg, Float64Of(sig, top - Len(sig), top))

----------------------------------------------------------------------------
(* decodeToUTF8 and what it uses of unicode/utf8 and unicode/utf16.         *)

RuneError == 65533      \* utf8.RuneError = unicode.ReplacementChar = U+FFFD
RuneSelf == 128         \* utf8.RuneSelf
MaxRune == 1114111      \* unicode.MaxRune = U+10FFFF
Surr1 == 55296          \* 0xD800, the first surrogate
Surr2 == 56320          \* 0xDC00, the first low surrogate
Surr3 == 57344          \* 0xE000, the first code point after the surrogates
SurrSelf == 65536       \* 0x10000

IsCont(b, lo, hi) == b >= lo /\ b <= hi

\* utf8.DecodeRune(s[r:]), r counted from 0: the rune and its size
DecodeRune(s, r) ==
    LET n == Len(s) - r
        b0 == s[r + 1]
        b1 == s[r + 2]
        b2 == s[r + 3]
        b3 == s[r + 4]
        bad == [rune |-> RuneError, size |-> 1]
        \* the range of the second byte that the first byte accepts
        lo == IF b0 = 224 THEN 160 ELSE IF b0 = 240 THEN 144 ELSE 128
        hi == IF b0 = 237 THEN 159 ELSE IF b0 = 244 THEN 143 ELSE 191
    IN  IF n < 1 THEN [rune |-> RuneError, size |-> 0]
        ELSE IF b0 < RuneSelf THEN [rune |-> b0, size |-> 1]
        ELSE IF b0 < 194 \/ b0 > 244 THEN bad
        ELSE IF b0 < 224
             THEN IF n < 2 \/ ~IsCont(b1, 128, 191) THEN bad
                  ELSE [rune |-> (b0 - 192) * 64 + (b1 - 128), size |-> 2]
        ELSE IF b0 < 240
             THEN IF n < 3 \/ ~IsCont(b1, lo, hi) \/ ~IsCont(b2, 128, 191) THEN bad
                  ELSE [rune |-> (b0 - 224) * 4096 + (b1 - 128) * 64 + (b2 - 128),
                        size |-> 3]
        ELSE IF \/ n < 4 \/ ~IsCont(b1, lo, hi)
                \/ ~IsCont(b2, 128, 191) \/ ~IsCont(b3, 128, 191) THEN bad
             ELSE [rune |-> (b0 - 240) * 262144 + (b1 - 128) * 4096
                            + (b2 - 128) * 64 + (b3 - 128),
                   size |-> 4]

\* utf8.EncodeRune: the bytes written for the rune c
EncodeRune(c) ==
    LET x == IF c < 0 \/ c > MaxRune \/ (c >= Surr1 /\ c < Surr3)
             THEN RuneError ELSE c
    IN  IF x < 128 THEN <<x>>
        ELSE IF x < 2048 THEN <<192 + (x \div 64), 128 + (x % 64)>>
        ELSE IF x < 65536
             THEN <<224 + (x \div 4096), 128 + ((x \div 64) % 64), 128 + (x % 64)>>
        ELSE <<240 + (x \div 262144), 128 + ((x \div 4096) % 64),
               128 + ((x \div 64) % 64), 128 + (x % 64)>>

\* utf16.IsSurrogate and utf16.DecodeRune
IsSurrogate(c) == c >= Surr1 /\ c < Surr3

\* a utf16.DecodeRune that finds no pair valid
Utf16DecodeRune_Never(c1, c2) == RuneError

Utf16DecodeRune(c1, c2) ==
    IF c1 >= Surr1 /\ c1 < Surr2 /\ c2 >= Surr2 /\ c2 < Surr3
    THEN (c1 - Surr1) * 1024 + (c2 - Surr2) + SurrSelf
    ELSE RuneError

\* the value of a hexadecimal digit, -1 for any other byte
HexDigit(b) ==
    IF b >= 48 /\ b <= 57 THEN b - 48
    ELSE IF b >= 97 /\ b <= 102 THEN b - 87
    ELSE IF b >= 65 /\ b <= 70 THEN b - 55
    ELSE -1

\* getu4(s[r:]), r counted from 0
getu4(s, r) ==
    IF Len(s) - r < 6 \/ s[r + 1] # BACKSLASH \/ s[r + 2] # LOWER_U THEN -1
    ELSE IF \E i \in 3..6 : HexDigit(s[r + i]) < 0 THEN -1
    ELSE HexDigit(s[r + 3]) * 4096 + HexDigit(s[r + 4]) * 256
         + HexDigit(s[r + 5]) * 16 + HexDigit(s[r + 6])

(* decodeToUTF8(s) reads the bytes of s one load at a time, some of them   *)
(* more than once: the first loop, copy(b, s[0:r]), the second loop, and    *)
(* for a plain string the conversion string(decoded) of readString, which   *)
(* reads s itself.  The operators below run this code over a source S of    *)
(* bytes: either the bytes S.mem, that nothing changes meanwhile, or the    *)
(* values S.T that the loads made so far have returned, in their order.     *)
(* k counts the loads; with the values of S.T used up the run stops and     *)
(* names the index of its next load.                                        *)

FixedBytes(s) == [fixed |-> TRUE, mem |-> s, T |-> <<>>]
LoadedBytes(T) == [fixed |-> FALSE, mem |-> <<>>, T |-> T]

\* the value of load number k is known; the value, for the load of s[i]
Loaded(S, k) == S.fixed \/ k <= Len(S.T)
Load(S, k, i) == IF S.fixed THEN S.mem[i + 1] ELSE S.T[k]

\* the run stops before the load of s[i]; the run has ended
NextLoad(i) == [st |-> "load", i |-> i]
Decoded(ok, t) == [st |-> "done", ok |-> ok, t |-> t]

\* loads k, k + 1, ... of s[r], s[r + 1], ..., the first j of them, as a
\* sequence of len bytes
Window(S, k, r, j, len) ==
    [x \in 1..len |-> IF x <= j THEN Load(S, k + x - 1, r + x - 1) ELSE NUL]

\* what utf8.DecodeRune(s[r:]) returns after j loads, the last load k + j - 1
RuneLoaded(S, n, r, k, j) ==
    [st |-> "rune",
     d |-> DecodeRune(Window(S, k, r, j, IF n - r < 4 THEN n - r ELSE 4), 0),
     k |-> k + j]

\* utf8.DecodeRune(s[r:]) after its first byte b0: the bytes that b0 asks
\* for, sz with it, while they fit and continue it
DecodeRuneRest(S, n, r, k, sz, lo, hi) ==
    IF sz = 1 \/ n - r < sz THEN RuneLoaded(S, n, r, k, 1)
    ELSE IF ~Loaded(S, k + 1) THEN NextLoad(r + 1)
    ELSE IF sz = 2 \/ ~IsCont(Load(S, k + 1, r + 1), lo, hi)
    THEN RuneLoaded(S, n, r, k, 2)
    ELSE IF ~Loaded(S, k + 2) THEN NextLoad(r + 2)
    ELSE IF sz = 3 \/ ~IsCont(Load(S, k + 2, r + 2), 128, 191)
    THEN RuneLoaded(S, n, r, k, 3)
    ELSE IF ~Loaded(S, k + 3) THEN NextLoad(r + 3)
    ELSE RuneLoaded(S, n, r, k, 4)

\* utf8.DecodeRune(s[r:]) with its first byte b0
DecodeRuneFirst(S, n, r, k, b0) ==
    DecodeRuneRest(S, n, r, k,
                   IF b0 < 194 \/ b0 > 244 THEN 1
                   ELSE IF b0 < 224 THEN 2 ELSE IF b0 < 240 THEN 3 ELSE 4,
                   IF b0 = 224 THEN 160 ELSE IF b0 = 240 THEN 144 ELSE 128,
                   IF b0 = 237 THEN 159 ELSE IF b0 = 244 THEN 143 ELSE 191)

\* utf8.DecodeRune(s[r:]) for r < n = len(s): it loads the first byte and
\* the bytes after it that the first byte asks for
DecodeRuneLoads(S, n, r, k) ==
    IF ~Loaded(S, k) THEN NextLoad(r)
    ELSE DecodeRuneFirst(S, n, r, k, Load(S, k, r))

\* getu4(s[r:]): s[r] and s[r + 1] one after the other, then the four
\* bytes of string(s[2:6])
getu4Loads(S, n, r, k) ==
    LET u4(j) == [st |-> "u4", v |-> getu4(Window(S, k, r, j, 6), 0), k |-> k + j]
        got == IF S.fixed THEN 6 ELSE Len(S.T) - k + 1
    IN  IF n - r < 6 THEN [st |-> "u4", v |-> -1, k |-> k]
        ELSE IF ~Loaded(S, k) THEN NextLoad(r)
        ELSE IF Load(S, k, r) # BACKSLASH THEN u4(1)
        ELSE IF ~Loaded(S, k + 1) THEN NextLoad(r + 1)
        ELSE IF Load(S, k + 1, r + 1) # LOWER_U THEN u4(2)
        ELSE IF got < 6 THEN NextLoad(r + got)
        ELSE u4(6)

\* one round of a loop is over: it goes on at index r, after load k - 1,
\* having written the bytes add
Round(r, add, k) == [st |-> "round", r |-> r, add |-> add, k |-> k]

\* the second loop of decodeToUTF8 at a byte of 0x80 or more, given what
\* utf8.DecodeRune(s[r:]) returned
UnquoteRune(r, d) ==
    IF d.st = "load" THEN d
    ELSE Round(r + d.d.size, EncodeRune(d.d.rune), d.k)

\* the second loop at \uXXXX with a surrogate rr, given rr1 = getu4(s[r+6:])
UnquoteSurrogate(r, rr, rr1) ==
    IF rr1.st = "load" THEN rr1
    ELSE IF Utf16DecodeRune(rr.v, rr1.v) # RuneError
    THEN Round(r + 12, EncodeRune(Utf16DecodeRune(rr.v, rr1.v)), rr1.k)
    ELSE Round(r + 6, EncodeRune(RuneError), rr1.k)

\* the second loop at \uXXXX, given rr = getu4(s[r:])
UnquoteU4(S, n, r, rr) ==
    IF rr.st = "load" THEN rr
    ELSE IF rr.v < 0 THEN Decoded(FALSE, <<>>)
    ELSE IF ~IsSurrogate(rr.v) THEN Round(r + 6, EncodeRune(rr.v), rr.k)
    ELSE UnquoteSurrogate(r, rr, getu4Loads(S, n, r + 6, rr.k))

\* the second loop at a backslash, s[r], given the byte x = s[r + 1] that
\* load k + 1 returned
UnquoteEscape(S, n, r, k, x) ==
    IF x \in {QUOTE, BACKSLASH, SLASH, APOSTROPHE}
    \* b[w] = s[r] loads the byte once more
    THEN IF ~Loaded(S, k + 2) THEN NextLoad(r + 1)
         ELSE Round(r + 2, <<Load(S, k + 2, r + 1)>>, k + 3)
    ELSE IF x = LOWER_B THEN Round(r + 2, <<8>>, k + 2)
    ELSE IF x = LOWER_F THEN Round(r + 2, <<FF>>, k + 2)
    ELSE IF x = LOWER_N THEN Round(r + 2, <<LF>>, k + 2)
    ELSE IF x = LOWER_R THEN Round(r + 2, <<CR>>, k + 2)
    ELSE IF x = LOWER_T THEN Round(r + 2, <<TAB>>, k + 2)
    ELSE IF x = LOWER_U THEN UnquoteU4(S, n, r, getu4Loads(S, n, r, k + 2))
    ELSE Decoded(FALSE, <<>>)

\* the second loop at index r < len(s), given the byte c = s[r] that load
\* k returned
UnquoteByte(S, n, r, k, c) ==
    IF c = BACKSLASH
    THEN IF r + 1 >= n THEN Decoded(FALSE, <<>>)
         ELSE IF ~Loaded(S, k + 1) THEN NextLoad(r + 1)
         ELSE UnquoteEscape(S, n, r, k, Load(S, k + 1, r + 1))
    ELSE IF c = QUOTE \/ c < SPACE THEN Decoded(FALSE, <<>>)
    ELSE IF c < RuneSelf THEN Round(r + 1, <<c>>, k + 1)
    ELSE UnquoteRune(r, DecodeRuneLoads(S, n, r, k + 1))

\* the second loop of decodeToUTF8, from index r with w already written
RECURSIVE Unquote(_, _, _, _, _)
RECURSIVE UnquoteOn(_, _, _, _)
Unquote(S, n, r, w, k) ==
    IF r >= n THEN Decoded(TRUE, w)
    ELSE IF ~Loaded(S, k) THEN NextLoad(r)
    ELSE UnquoteOn(S, n, w, UnquoteByte(S, n, r, k, Load(S, k, r)))

\* the second loop after the round e
UnquoteOn(S, n, w, e) ==
    IF e.st # "round" THEN e ELSE Unquote(S, n, e.r, w \o e.add, e.k)

\* after the first loop has ended at r.  With r = len(s) decodeToUTF8
\* returns s and string(decoded) loads its bytes; otherwise copy(b, s[0:r])
\* loads the first r and the second loop goes on from r.
Copied(S, n, r, k) ==
    LET m == IF r = n THEN n ELSE r
        got == IF S.fixed THEN m ELSE Len(S.T) - k + 1
        bytes == Window(S, k, 0, m, m)
    IN  IF got < m THEN NextLoad(got)
        ELSE IF r = n THEN Decoded(TRUE, bytes)
        ELSE Unquote(S, n, r, bytes, k + m)

\* the first loop at a byte of 0x80 or more, given what
\* utf8.DecodeRune(s[r:]) returned
PlainRune(r, d) ==
    IF d.st = "load" THEN d
    ELSE IF d.d.rune = RuneError /\ d.d.size = 1 THEN [st |-> "break", k |-> d.k]
    ELSE Round(r + d.d.size, <<>>, d.k)

\* the first loop at index r < len(s), given the byte c = s[r] that load k
\* returned
PlainByte(S, n, r, k, c) ==
    IF c = BACKSLASH \/ c = QUOTE \/ c < SPACE THEN [st |-> "break", k |-> k + 1]
    ELSE IF c < RuneSelf THEN Round(r + 1, <<>>, k + 1)
    ELSE PlainRune(r, DecodeRuneLoads(S, n, r, k + 1))

\* the first loop of decodeToUTF8, at index r
RECURSIVE PlainEnd(_, _, _, _)
RECURSIVE PlainOn(_, _, _, _)
PlainEnd(S, n, r, k) ==
    IF r >= n THEN Copied(S, n, r, k)
    ELSE IF ~Loaded(S, k) THEN NextLoad(r)
    ELSE PlainOn(S, n, r, PlainByte(S, n, r, k, Load(S, k, r)))

\* the first loop after the round e of index r
PlainOn(S, n, r, e) ==
    IF e.st = "load" THEN e
    ELSE IF e.st = "break" THEN Copied(S, n, r, e.k)
    ELSE PlainEnd(S, n, e.r, e.k)

\* decodeToUTF8 and string(decoded), as far as the n bytes loaded so far
\* take them
decodeLoads(T, n) == PlainEnd(LoadedBytes(T), n, 0, 1)

\* decodeToUTF8(s) while nothing else writes to s
decodeToUTF8(s) ==
    LET d == PlainEnd(FixedBytes(s), Len(s), 0, 1)
    IN  [ok |-> d.ok, t |-> d.t]

----------------------------------------------------------------------------
(* The worker.  A worker state is the record Cur of everything the worker  *)
(* owns; each handler below maps the state and the outcome of its one      *)
(* br.ReadByte call to the state at the worker's next stop.                *)

Cur == [p |-> p, buf |-> buf, bbuf |-> bbuf, isFloat |-> isFloat,
        pc |-> pc, stack |-> stack, out |-> <<>>, docStart |-> docStart]

\* emitEvent: the send on the channel, which the worker then blocks in
emitEvent(s, typ, value, err) == [s EXCEPT !.out = <<Event(typ, value, err)>>]

\* an end of Parse that sends the EOFEvent whatever getError returns
ParseEnd_Always(s) ==
    emitEvent([s EXCEPT !.pc = "Done", !.stack = <<>>], "EOFEvent", NilValue,
              getError(s.p))

\* the end of Parse: an EOFEvent if getError is not nil, then return
ParseEnd(s) ==
    LET err == getError(s.p)
        t == [s EXCEPT !.pc = "Done", !.stack = <<>>]
    IN  IF err # Nil THEN emitEvent(t, "EOFEvent", NilValue, err) ELSE t

\* `return true': the caller goes on; the outermost caller is Parse
ReturnTrue(s) ==
    IF s.stack = <<>> THEN [s EXCEPT !.pc = "ParseNext"]
    ELSE [s EXCEPT !.pc = Head(s.stack), !.stack = Tail(s.stack)]

\* a caller that does not test what the production returned
ReturnFalse_Ignored(s) == ReturnTrue(s)

\* `return false': every caller up to Parse returns false or breaks its loop
ReturnFalse(s) == ParseEnd(s)

\* a call whose caller continues at `cont' when it returns true
Call(s, fn, cont) == [s EXCEPT !.pc = fn, !.stack = <<cont>> \o s.stack]

\* the calls readString(), readNumber(), readBoolean() up to their first read
\* a readString without its buf.Reset()
EnterString_NoReset(s) == [s EXCEPT !.pc = "String"]

EnterString(s) == [s EXCEPT !.pc = "String", !.buf = <<>>]
EnterNumber(s) == [s EXCEPT !.pc = "Number", !.buf = <<>>, !.isFloat = FALSE]
EnterBoolean(s) == [s EXCEPT !.pc = "Boolean", !.bbuf = <<>>]

\* readIgnoreWS reads on while it gets whitespace
readIgnoreWS(r) == r # eof /\ isSpace(r)

\* Parse, the head of its loop
Parse(s, o) ==
    LET q == readByte(s.p, o)
        r == readByteResult(o)
    IN  IF r = eof
        THEN ParseEnd([s EXCEPT !.p = serr2(q, errUnexpectedEOF, <<>>)])
        ELSE IF r = LBRACE THEN [s EXCEPT !.p = unreadByte(q), !.pc = "Object"]
        ELSE IF r = LBRACKET THEN [s EXCEPT !.p = unreadByte(q), !.pc = "Array"]
        ELSE ParseEnd([s EXCEPT !.p = serr(q, "unexpected character %c", r)])

\* Parse, after a complete top-level value
ParseNext(s, o) ==
    LET q == readByte(s.p, o)
        r == readByteResult(o)
    IN  IF readIgnoreWS(r) THEN [s EXCEPT !.p = q]
        ELSE IF r = eof THEN ParseEnd([s EXCEPT !.p = q])
        ELSE [s EXCEPT !.p = resetState(unreadByte(q)), !.pc = "Parse",
                       !.docStart = unreadByte(q).off]

\* readObject: the key of the next member.  The worker sends ObjectKeyEvent
\* and only then calls readString: while the send waits for the consumer,
\* buf still holds the bytes of the previous string or number
readObjectKey(s) ==
    Call(emitEvent(s, "ObjectKeyEvent", NilValue, Nil),
         "ObjectKey", "ObjectColon")

\* readObject, up to ObjectStartEvent
readObject(s, o) ==
    LET q == readByte(s.p, o)
        r == readByteResult(o)
    IN  IF readIgnoreWS(r) THEN [s EXCEPT !.p = q]
        ELSE IF r = eof
        THEN ReturnFalse([s EXCEPT !.p = serr2(q, errUnexpectedEOF, <<>>)])
        ELSE IF r # LBRACE
        THEN ReturnFalse([s EXCEPT !.p = serr(q, "expected { but got %c", r)])
        ELSE emitEvent([s EXCEPT !.p = q, !.pc = "ObjectFirst"],
                       "ObjectStartEvent", NilValue, Nil)

\* readObject, after the opening brace
readObjectFirst(s, o) ==
    LET q == readByte(s.p, o)
        r == readByteResult(o)
    IN  IF readIgnoreWS(r) THEN [s EXCEPT !.p = q]
        ELSE IF r = eof
        THEN ReturnFalse([s EXCEPT !.p = serr2(q, errUnexpectedEOF, <<>>)])
        ELSE IF r = RBRACE
        THEN ReturnTrue(emitEvent([s EXCEPT !.p = q], "ObjectEndEvent", NilValue, Nil))
        ELSE readObjectKey([s EXCEPT !.p = unreadByte(q)])

\* readObject, after the key
readObjectColon(s, o) ==
    LET q == readByte(s.p, o)
        r == readByteResult(o)
    IN  IF readIgnoreWS(r) THEN [s EXCEPT !.p = q]
        ELSE IF r # COLON
        THEN ReturnFalse([s EXCEPT !.p = serr(q, "expected : but got %c", r)])
        ELSE Call(emitEvent([s EXCEPT !.p = q], "ObjectValueEvent", NilValue, Nil),
                  "Value", "ObjectNext")

\* readObject, after the value of a member
readObjectNext(s, o) ==
    LET q == readByte(s.p, o)
        r == readByteResult(o)
    IN  IF readIgnoreWS(r) THEN [s EXCEPT !.p = q]
        ELSE IF r = eof
        THEN ReturnFalse([s EXCEPT !.p = serr2(q, errUnexpectedEOF, <<>>)])
        ELSE IF r = RBRACE
        THEN ReturnTrue(emitEvent([s EXCEPT !.p = q], "ObjectEndEvent", NilValue, Nil))
        ELSE IF r # COMMA
        THEN ReturnFalse([s EXCEPT !.p = serr(q, "expected , but got %c", r)])
        ELSE readObjectKey([s EXCEPT !.p = q])

\* readArray, up to ArrayStartEvent
readArray(s, o) ==
    LET q == readByte(s.p, o)
        r == readByteResult(o)
    IN  IF readIgnoreWS(r) THEN [s EXCEPT !.p = q]
        ELSE IF r = eof
        THEN ReturnFalse([s EXCEPT !.p = serr2(q, errUnexpectedEOF, <<>>)])
        ELSE IF r # LBRACKET
        THEN ReturnFalse([s EXCEPT !.p = serr(q, "expected [ but got %c", r)])
        ELSE emitEvent([s EXCEPT !.p = q, !.pc = "ArrayFirst"],
                       "ArrayStartEvent", NilValue, Nil)

\* readArray, after the opening bracket
readArrayFirst(s, o) ==
    LET q == readByte(s.p, o)
        r == readByteResult(o)
    IN  IF readIgnoreWS(r) THEN [s EXCEPT !.p = q]
        ELSE IF r = eof
        THEN ReturnFalse([s EXCEPT !.p = serr2(q, errUnexpectedEOF, <<>>)])
        ELSE IF r = RBRACKET
        THEN ReturnTrue(emitEvent([s EXCEPT !.p = q], "ArrayEndEvent", NilValue, Nil))
        ELSE Call([s EXCEPT !.p = unreadByte(q)], "Value", "ArrayNext")

\* readArray, after an element
readArrayNext(s, o) ==
    LET q == readByte(s.p, o)
        r == readByteResult(o)
    IN  IF readIgnoreWS(r) THEN [s EXCEPT !.p = q]
        ELSE IF r = eof
        THEN ReturnFalse([s EXCEPT !.p = serr2(q, errUnexpectedEOF, <<>>)])
        ELSE IF r = RBRACKET
        THEN ReturnTrue(emitEvent([s EXCEPT !.p = q], "ArrayEndEvent", NilValue, Nil))
        ELSE IF r # COMMA
        THEN ReturnFalse([s EXCEPT !.p = serr(q, "expected , but got %c", r)])
        ELSE Call([s EXCEPT !.p = q], "Value", "ArrayNext")

\* a readValue that takes the letter n for a null
readValue_Null(s, o) ==
    LET q == readByte(s.p, o)
        r == readByteResult(o)
    IN  IF readIgnoreWS(r) THEN [s EXCEPT !.p = q]
        ELSE IF r = eof
        THEN ReturnFalse([s EXCEPT !.p = serr2(q, errUnexpectedEOF, <<>>)])
        ELSE IF r = QUOTE THEN EnterString([s EXCEPT !.p = unreadByte(q)])
        ELSE IF r = APOSTROPHE THEN [s EXCEPT !.p = q, !.pc = "ValueQuote"]
        ELSE IF r = LOWER_N
        THEN ReturnTrue(emitEvent([s EXCEPT !.p = q], "NullEvent", NilValue, Nil))
        ELSE IF r = LOWER_F \/ r = LOWER_T
        THEN EnterBoolean([s EXCEPT !.p = unreadByte(q)])
        ELSE IF r = MINUS \/ r = PLUS \/ isDigit(r)
        THEN EnterNumber([s EXCEPT !.p = unreadByte(q)])
        ELSE IF r = LBRACE THEN [s EXCEPT !.p = unreadByte(q), !.pc = "Object"]
        ELSE IF r = LBRACKET THEN [s EXCEPT !.p = unreadByte(q), !.pc = "Array"]
        ELSE ReturnFalse([s EXCEPT !.p = serr(q, "unexpected character %c", r)])

\* readValue
readValue(s, o) ==
    LET q == readByte(s.p, o)
        r == readByteResult(o)
    IN  IF readIgnoreWS(r) THEN [s EXCEPT !.p = q]
        ELSE IF r = eof
        THEN ReturnFalse([s EXCEPT !.p = serr2(q, errUnexpectedEOF, <<>>)])
        ELSE IF r = QUOTE THEN EnterString([s EXCEPT !.p = unreadByte(q)])
        ELSE IF r = APOSTROPHE THEN [s EXCEPT !.p = q, !.pc = "ValueQuote"]
        ELSE IF r = LOWER_F \/ r = LOWER_T
        THEN EnterBoolean([s EXCEPT !.p = unreadByte(q)])
        ELSE IF r = MINUS \/ r = PLUS \/ isDigit(r)
        THEN EnterNumber([s EXCEPT !.p = unreadByte(q)])
        ELSE IF r = LBRACE THEN [s EXCEPT !.p = unreadByte(q), !.pc = "Object"]
        ELSE IF r = LBRACKET THEN [s EXCEPT !.p = unreadByte(q), !.pc = "Array"]
        ELSE ReturnFalse([s EXCEPT !.p = serr(q, "unexpected character %c", r)])

\* readValue, the byte after an apostrophe
readValueQuote(s, o) ==
    LET q == readByte(s.p, o)
        r == readByteResult(o)
    IN  IF r = eof THEN ReturnFalse([s EXCEPT !.p = q])
        ELSE ReturnTrue([s EXCEPT !.p = q])

\* readBoolean, one of its first four bytes
readBoolean(s, o) ==
    LET q == readByte(s.p, o)
        r == readByteResult(o)
        word == Append(s.bbuf, r)
        t == [s EXCEPT !.p = q, !.bbuf = word]
    IN  IF r = eof
        THEN ReturnFalse([s EXCEPT !.p = serr2(q, errUnexpectedEOF, <<>>)])
        ELSE IF Len(word) < 4 THEN t
        ELSE IF word = <<LOWER_T, LOWER_R, LOWER_U, LOWER_E>>
        THEN ReturnTrue(emitEvent(t, "BooleanEvent", BoolValue(TRUE), Nil))
        ELSE [t EXCEPT !.pc = "BooleanE"]

\* readBoolean, the fifth byte
readBooleanE(s, o) ==
    LET q == readByte(s.p, o)
        r == readByteResult(o)
    IN  IF r = eof
        THEN ReturnFalse([s EXCEPT !.p = serr2(q, errUnexpectedEOF, <<>>)])
        ELSE IF r # LOWER_E
        THEN ReturnFalse([s EXCEPT !.p = serr(q, "expected e but got %c", r)])
        ELSE ReturnTrue(emitEvent([s EXCEPT !.p = q], "BooleanEvent",
                                  BoolValue(FALSE), Nil))

\* the bytes that readNumber takes into the run
InNumber(r) == r \in {DOT, LOWER_E, UPPER_E, PLUS, MINUS} \/ isDigit(r)

\* a readNumber that parses every run as a float
readNumberEnd_AllFloat(s) ==
    LET f == ParseFloat(s.buf)
    IN  IF f.err # ""
        THEN ReturnFalse([s EXCEPT !.p = serr2(s.p, "strconv.ParseFloat: " \o f.err,
                                               s.buf)])
        ELSE ReturnTrue(emitEvent(s, "NumberEvent", f.v, Nil))

\* readNumber, after its loop
readNumberEnd(s) ==
    LET f == ParseFloat(s.buf)
        i == ParseInt(s.buf)
    IN  IF s.isFloat
        THEN IF f.err # ""
             THEN ReturnFalse([s EXCEPT !.p = serr2(s.p, "strconv.ParseFloat: " \o f.err,
                                                    s.buf)])
             ELSE ReturnTrue(emitEvent(s, "NumberEvent", f.v, Nil))
        ELSE IF i.err # ""
             THEN ReturnFalse([s EXCEPT !.p = serr2(s.p, "strconv.ParseInt: " \o i.err,
                                                    s.buf)])
             ELSE ReturnTrue(emitEvent(s, "NumberEvent", i.v, Nil))

\* a readNumber that takes the end of the input for the end of the run
readNumber_EofEndsRun(s, o) ==
    LET q == readByte(s.p, o)
        r == readByteResult(o)
    IN  IF r = DOT \/ r = LOWER_E \/ r = UPPER_E
        THEN [s EXCEPT !.p = q, !.isFloat = TRUE, !.buf = Append(s.buf, r)]
        ELSE IF r = eof \/ ~InNumber(r)
        THEN readNumberEnd([s EXCEPT !.p = unreadByte(q)])
        ELSE [s EXCEPT !.p = q, !.buf = Append(s.buf, r)]

\* readNumber, one byte of its loop
readNumber(s, o) ==
    LET q == readByte(s.p, o)
        r == readByteResult(o)
    IN  IF r = eof
        THEN ReturnFalse([s EXCEPT !.p = serr2(q, errUnexpectedEOF, <<>>)])
        ELSE IF r = DOT \/ r = LOWER_E \/ r = UPPER_E
        THEN [s EXCEPT !.p = q, !.isFloat = TRUE, !.buf = Append(s.buf, r)]
        ELSE IF ~InNumber(r) THEN readNumberEnd([s EXCEPT !.p = unreadByte(q)])
        ELSE [s EXCEPT !.p = q, !.buf = Append(s.buf, r)]

\* readString, up to the opening quote
readString(s, o) ==
    LET q == readByte(s.p, o)
        r == readByteResult(o)
    IN  IF readIgnoreWS(r) THEN [s EXCEPT !.p = q]
        ELSE IF r = eof
        THEN ReturnFalse([s EXCEPT !.p = serr2(q, errUnexpectedEOF, <<>>)])
        ELSE IF r # QUOTE
        THEN ReturnFalse([s EXCEPT !.p = serr(q, "expected \" but got %c", r)])
        ELSE [s EXCEPT !.p = q, !.pc = "StringBody"]

\* readObject, past the send of ObjectKeyEvent: the call of readString and
\* its buf.Reset(); the worker then waits in its next read with buf empty
readObjectKeyString(s) == EnterString(s)

\* readString, after its loop, with what decodeToUTF8 returned
readStringEnd(s, decoded) ==
    IF ~decoded.ok
    THEN ReturnFalse([s EXCEPT !.p =
             serr(s.p, "unable to decode string into a valid UTF-8 string", -1)])
    ELSE ReturnTrue(emitEvent(s, "StringEvent", StringValue(decoded.t), Nil))

\* readString, one byte of its loop
readStringBody(s, o) ==
    LET q == readByte(s.p, o)
        r == readByteResult(o)
    IN  IF r = eof
        THEN ReturnFalse([s EXCEPT !.p = serr2(q, errUnexpectedEOF, <<>>)])
        ELSE IF r # QUOTE THEN [s EXCEPT !.p = q, !.buf = Append(s.buf, r)]
        ELSE readStringEnd([s EXCEPT !.p = q], decodeToUTF8(s.buf))

----------------------------------------------------------------------------
(* The byte source.  A profile is either an alphabet, of which the source  *)
(* may deliver any byte at any time up to a number of bytes, or a script:  *)
(* one input of the repository's tests (T_) or of the specification's      *)
(* properties (X_), delivered byte by byte.  After any number of bytes the *)
(* source may end (io.EOF) or fail (another error).                        *)

\* {}
T_Empty ==
    <<123, 125>>

\* {"foo": "bar"}
T_FooBar ==
    <<123, 34, 102, 111, 111, 34, 58, 32, 34, 98, 97, 114, 34, 125>>

\* {"foo": "\u265e\u2602"}
T_Unicode ==
    <<123, 34, 102, 111, 111, 34, 58, 32, 34, 92, 117, 50, 54, 53, 101,
      92, 117, 50, 54, 48, 50, 34, 125>>

\* {"foo": 10}
T_Int ==
    <<123, 34, 102, 111, 111, 34, 58, 32, 49, 48, 125>>

\* {"foo": 10.0}
T_Float ==
    <<123, 34, 102, 111, 111, 34, 58, 32, 49, 48, 46, 48, 125>>

\* {"foo": 10e6}
T_Exp ==
    <<123, 34, 102, 111, 111, 34, 58, 32, 49, 48, 101, 54, 125>>

\* {"foo": -1.3}
T_Neg ==
    <<123, 34, 102, 111, 111, 34, 58, 32, 45, 49, 46, 51, 125>>

\* {"foo": true}
T_True ==
    <<123, 34, 102, 111, 111, 34, 58, 32, 116, 114, 117, 101, 125>>

\* {"foo": false}
T_False ==
    <<123, 34, 102, 111, 111, 34, 58, 32, 102, 97, 108, 115, 101, 125>>

\* {"foo": []}
T_EmptyArray ==
    <<123, 34, 102, 111, 111, 34, 58, 32, 91, 93, 125>>

\* {"foo": ["a", "b"]}
T_Array ==
    <<123, 34, 102, 111, 111, 34, 58, 32, 91, 34, 97, 34, 44, 32, 34,
      98, 34, 93, 125>>

\* {"foo": "bar", "qux": "baz"}}
T_TwoMembers ==
    <<123, 34, 102, 111, 111, 34, 58, 32, 34, 98, 97, 114, 34, 44, 32,
      34, 113, 117, 120, 34, 58, 32, 34, 98, 97, 122, 34, 125, 125>>

\* {"foo": [{"a": true, "b": false}, {"b": 10.0, "c": [1, 2, 3]}]}
T_Nested ==
    <<123, 34, 102, 111, 111, 34, 58, 32, 91, 123, 34, 97, 34, 58, 32,
      116, 114, 117, 101, 44, 32, 34, 98, 34, 58, 32, 102, 97, 108, 115,
      101, 125, 44, 32, 123, 34, 98, 34, 58, 32, 49, 48, 46, 48, 44, 32,
      34, 99, 34, 58, 32, 91, 49, 44, 32, 50, 44, 32, 51, 93, 125, 93,
      125>>

\* {f}
T_BadKey ==
    <<123, 102, 125>>

\* ["a", 
T_ArrayCut ==
    <<91, 34, 97, 34, 44, 32>>

\* {"foo": "bar"}       {"bar": "baz"}
T_Multi ==
    <<123, 34, 102, 111, 111, 34, 58, 32, 34, 98, 97, 114, 34, 125, 32,
      32, 32, 32, 32, 32, 32, 123, 34, 98, 97, 114, 34, 58, 32, 34, 98,
      97, 122, 34, 125>>

\* {"foo": "bar"}{"bar": true}
T_ExampleMulti ==
    <<123, 34, 102, 111, 111, 34, 58, 32, 34, 98, 97, 114, 34, 125, 123,
      34, 98, 97, 114, 34, 58, 32, 116, 114, 117, 101, 125>>

\* ["\""]   (a string holding one escaped quote)
X_EscapedQuote ==
    <<91, 34, 92, 34, 34, 93>>

\* {"a":"\"b"}   (a member whose value holds an escaped quote)
X_EscapedQuoteMember ==
    <<123, 34, 97, 34, 58, 34, 92, 34, 98, 34, 125>>

\* ["\""] []   (two top-level values, the first with an escaped quote)
X_TwoDocsEscaped ==
    <<91, 34, 92, 34, 34, 93, 32, 91, 93>>

\* {"a":'b}   (a value that starts with an apostrophe)
X_Apostrophe ==
    <<123, 34, 97, 34, 58, 39, 98, 125>>

\* [f,]xe]   (five bytes taken by readBoolean, a comma and a bracket among them)
X_BooleanComma ==
    <<91, 102, 44, 93, 120, 101, 93>>

Scripts ==
    {T_Empty, T_FooBar, T_Unicode, T_Int, T_Float,
     T_Exp, T_Neg, T_True, T_False, T_EmptyArray,
     T_Array, T_TwoMembers, T_Nested, T_BadKey, T_ArrayCut,
     T_Multi, T_ExampleMulti,
     X_EscapedQuote, X_EscapedQuoteMember, X_TwoDocsEscaped, X_Apostrophe,
     X_BooleanComma}

\* objects, arrays, strings, whitespace and newlines
StructBytes ==
    {LBRACE, RBRACE, LBRACKET, RBRACKET, QUOTE, COLON, COMMA, SPACE, LF, LOWER_A}

\* numbers, in arrays, and the newline that may end one
NumberBytes ==
    {LBRACKET, RBRACKET, COMMA, LF, ZERO, ONE, DOT, LOWER_E, UPPER_E, MINUS, PLUS}

\* booleans, in arrays
BooleanBytes ==
    {LBRACKET, RBRACKET, LOWER_T, LOWER_R, LOWER_U, LOWER_E,
     LOWER_F, LOWER_A, LOWER_L, LOWER_S}

\* the bytes with a treatment of their own: the apostrophe, the zero byte,
\* the backslash, the first letter of null
OddBytes ==
    {LBRACE, RBRACE, LBRACKET, RBRACKET, QUOTE, COLON, COMMA,
     APOSTROPHE, NUL, BACKSLASH, LOWER_N, ONE}

Alphabet(bytes, len) == [bytes |-> bytes, len |-> len, script |-> <<>>]
Script(text) == [bytes |-> {}, len |-> Len(text), script |-> text]

Profiles ==
    {Alphabet(b, MaxLen) : b \in {StructBytes, NumberBytes, BooleanBytes, OddBytes}}
    \cup {Script(t) : t \in Scripts}

WsCount(data) == Cardinality({i \in 1..Len(data) : isSpace(data[i])})

\* the bytes the source of the Parser q may deliver next, for a worker at
\* `label' with the scratch buffer b
DeliverableOf(q, prof, label, b) ==
    IF Len(q.data) >= prof.len THEN {}
    ELSE IF prof.script # <<>> THEN {prof.script[Len(q.data) + 1]}
    ELSE {x \in prof.bytes :
            /\ isSpace(x) => WsCount(q.data) < MaxWs
            /\ label = "StringBody" /\ x # QUOTE => Len(b) < MaxStrLen
            /\ label = "Number" /\ InNumber(x) => Len(b) < MaxNumLen}

\* what q.br.ReadByte may return
ReadsOf(q, prof, label, b) ==
    IF q.off < Len(q.data) THEN {ByteRead(q.data[q.off + 1])}
    ELSE IF q.src = "io.EOF" THEN {FailedRead(IoEOF)}
    ELSE IF q.src = "io.err" THEN {FailedRead(IoErr)}
    ELSE {ByteRead(x) : x \in DeliverableOf(q, prof, label, b)}
             \cup {FailedRead(IoEOF), FailedRead(IoErr)}

\* the bytes the source may deliver next
Deliverable == DeliverableOf(p, profile, pc, buf)

\* what br.ReadByte may return in the current state
Reads == ReadsOf(p, profile, pc, buf)

\* the three words of a slice: its array (0 is nil), its length and its
\* capacity
NoHeader == [ptr |-> 0, len |-> 0, cap |-> 0]

\* an operation on buf that a worker has begun: its next part k, the
\* outcome o of the read before it, whether it is inside grow(), grow's m
\* or WriteByte's, the words of b.buf left to load or to store, the words
\* h loaded or to be stored, and the bytes got from the array
NoOp == [k |-> "none", o |-> ByteRead(NUL), grow |-> FALSE, m |-> 0, left |-> {},
         h |-> NoHeader, got |-> <<>>]

\* buf as the zero value of bytes.Buffer: the words of b.buf are those of
\* nil, neither worker has made an array for it (arr), no operation on it
\* is unfinished, and the process has not exited
NoRace == [ptr |-> 0, len |-> 0, cap |-> 0, arr |-> <<<<>>, <<>>>>,
           op |-> <<NoOp, NoOp>>, exited |-> FALSE]

\* a Parser that has not been given to a worker
\* (buf: the scratch buffer of a run in a process of its own)
NoWorker ==
    [p |-> NewParser, bbuf |-> <<>>, isFloat |-> FALSE, pc |-> "Done",
     stack |-> <<>>, ch |-> <<>>, received |-> <<>>, docStart |-> 0,
     profile |-> Script(<<>>), buf |-> <<>>]

----------------------------------------------------------------------------
(* The state machine.                                                      *)

Init ==
    /\ p = NewParser
    /\ buf = <<>>
    /\ bbuf = <<>>
    /\ isFloat = FALSE
    /\ pc = "Parse"
    /\ stack = <<>>
    /\ ch = <<>>
    /\ received = <<>>
    /\ docStart = 0
    /\ profile \in Profiles
    /\ consumer = "receiving"
    /\ w2 = NoWorker
    /\ mem = NoRace

\* the worker moves to the state n; a pending send blocks it
Step(n) ==
    /\ p' = n.p
    /\ buf' = n.buf
    /\ bbuf' = n.bbuf
    /\ isFloat' = n.isFloat
    /\ pc' = n.pc
    /\ stack' = n.stack
    /\ ch' = n.out
    /\ docStart' = n.docStart
    /\ UNCHANGED <<received, profile, consumer, w2, mem>>

\* a send that does not wait for the consumer
Ready_NoWait(label) == pc = label

Ready(label) == pc = label /\ ch = <<>>

DoParse == Ready("Parse") /\ \E o \in Reads : Step(Parse(Cur, o))
DoParseNext == Ready("ParseNext") /\ \E o \in Reads : Step(ParseNext(Cur, o))
DoObject == Ready("Object") /\ \E o \in Reads : Step(readObject(Cur, o))
DoObjectFirst == Ready("ObjectFirst") /\ \E o \in Reads : Step(readObjectFirst(Cur, o))
DoObjectKey == Ready("ObjectKey") /\ Step(readObjectKeyString(Cur))
DoObjectColon == Ready("ObjectColon") /\ \E o \in Reads : Step(readObjectColon(Cur, o))
DoObjectNext == Ready("ObjectNext") /\ \E o \in Reads : Step(readObjectNext(Cur, o))
DoArray == Ready("Array") /\ \E o \in Reads : Step(readArray(Cur, o))
DoArrayFirst == Ready("ArrayFirst") /\ \E o \in Reads : Step(readArrayFirst(Cur, o))
DoArrayNext == Ready("ArrayNext") /\ \E o \in Reads : Step(readArrayNext(Cur, o))
DoValue == Ready("Value") /\ \E o \in Reads : Step(readValue(Cur, o))
DoValueQuote == Ready("ValueQuote") /\ \E o \in Reads : Step(readValueQuote(Cur, o))
DoBoolean == Ready("Boolean") /\ \E o \in Reads : Step(readBoolean(Cur, o))
DoBooleanE == Ready("BooleanE") /\ \E o \in Reads : Step(readBooleanE(Cur, o))
DoNumber == Ready("Number") /\ \E o \in Reads : Step(readNumber(Cur, o))
DoString == Ready("String") /\ \E o \in Reads : Step(readString(Cur, o))
DoStringBody == Ready("StringBody") /\ \E o \in Reads : Step(readStringBody(Cur, o))

\* the consumer takes the event the worker is sending
\* a consumer that receives one event and no more
Receive_Once ==
    /\ consumer = "receiving"
    /\ received = <<>>
    /\ ch # <<>>
    /\ received' = Append(received, ch[1])
    /\ ch' = <<>>
    /\ UNCHANGED <<p, buf, bbuf, isFloat, pc, stack, docStart, profile,
                   consumer, w2, mem>>

Receive ==
    /\ consumer = "receiving"
    /\ ch # <<>>
    /\ received' = Append(received, ch[1])
    /\ ch' = <<>>
    /\ UNCHANGED <<p, buf, bbuf, isFloat, pc, stack, docStart, profile,
                   consumer, w2, mem>>

Next ==
    \/ DoParse \/ DoParseNext
    \/ DoObject \/ DoObjectFirst \/ DoObjectKey \/ DoObjectColon
    \/ DoObjectNext
    \/ DoArray \/ DoArrayFirst \/ DoArrayNext
    \/ DoValue \/ DoValueQuote
    \/ DoBoolean \/ DoBooleanE \/ DoNumber
    \/ DoString \/ DoStringBody
    \/ Receive

Spec == Init /\ [][Next]_vars

\* every event the worker has sent or is sending, in order
emitted == received \o ch

----------------------------------------------------------------------------
(* A consumer that may stop receiving.                                     *)

\* the code the worker runs from `label' on, up to its next read; from
\* "ObjectKey" it runs up to the read without one before, whatever o is
Handle(label, s, o) ==
    CASE label = "Parse" -> Parse(s, o)
      [] label = "ParseNext" -> ParseNext(s, o)
      [] label = "Object" -> readObject(s, o)
      [] label = "ObjectFirst" -> readObjectFirst(s, o)
      [] label = "ObjectKey" -> readObjectKeyString(s)
      [] label = "ObjectColon" -> readObjectColon(s, o)
      [] label = "ObjectNext" -> readObjectNext(s, o)
      [] label = "Array" -> readArray(s, o)
      [] label = "ArrayFirst" -> readArrayFirst(s, o)
      [] label = "ArrayNext" -> readArrayNext(s, o)
      [] label = "Value" -> readValue(s, o)
      [] label = "ValueQuote" -> readValueQuote(s, o)
      [] label = "Boolean" -> readBoolean(s, o)
      [] label = "BooleanE" -> readBooleanE(s, o)
      [] label = "Number" -> readNumber(s, o)
      [] label = "String" -> readString(s, o)
      [] label = "StringBody" -> readStringBody(s, o)

\* the code from `label' starts with a read
StartsWithRead(label) == label # "ObjectKey"

\* what Handle is given for the code that starts without a read
NoRead == ByteRead(NUL)

\* one step of the worker, wherever it is in Parse
\* (it runs up to its next read; or its read fails, or returns a byte)
Work ==
    /\ pc # "Done"
    /\ Ready(pc)
    /\ \/ ~StartsWithRead(pc) /\ Step(Handle(pc, Cur, NoRead))
       \/ /\ StartsWithRead(pc)
          /\ \E o \in Reads \cap {FailedRead(IoEOF), FailedRead(IoErr)} :
                Step(Handle(pc, Cur, o))
       \/ /\ StartsWithRead(pc)
          /\ \E o \in Reads \ {FailedRead(IoEOF), FailedRead(IoErr)} :
                Step(Handle(pc, Cur, o))

\* the consumer stops receiving, for good
ConsumerStops ==
    /\ consumer = "receiving"
    /\ consumer' = "stopped"
    /\ UNCHANGED <<p, buf, bbuf, isFloat, pc, stack, ch, received, docStart,
                   profile, w2, mem>>

InitStop == Init /\ profile.script # <<>>

NextStop == Work \/ Receive \/ ConsumerStops

SpecStop == InitStop /\ [][NextStop]_vars

\* The scripted inputs again, with a scheduler that runs the worker's
\* goroutine while it can take a step, a byte source whose every read
\* returns, and a consumer that keeps receiving.
NextLive == Work \/ Receive

SpecLive == InitStop /\ [][NextLive]_vars /\ WF_vars(Work) /\ WF_vars(Receive)

----------------------------------------------------------------------------
(* Two Parsers, each run by a worker of its own on a byte source of its    *)
(* own and with a channel of its own.  The scratch buffer `buf' is a       *)
(* package-level variable, so there is one for both; bbuf and isFloat are  *)
(* locals of readBoolean and readNumber.  Nothing orders the two workers'  *)
(* accesses to buf: a data race.  A bytes.Buffer is a slice b.buf of three *)
(* words (array, length, capacity), nil at first, and an offset b.off.     *)
(* The steps below are the loads and stores of one word or of one byte    *)
(* that buf.Reset, buf.WriteByte, buf.String and decodeToUTF8(buf.Bytes()) *)
(* make (bytes.Buffer of Go 1.20 and later), taken in one order for both   *)
(* workers.  What the language leaves to the build is left open:           *)
(*   - the words of b.buf that one expression loads are loaded in any      *)
(*     order, and the words that b.buf = make(...) stores are stored in    *)
(*     any order;                                                          *)
(*   - b.buf = b.buf[:n] stores the length only.                           *)
(* mem.ptr is the array of b.buf, 0 for nil and else the worker that made  *)
(* it; mem.len and mem.cap are its length and capacity; mem.arr[w] holds   *)
(* the bytes of the array of worker w as far as one was stored, the rest   *)
(* are 0, as the allocator left them.  b.off is 0 throughout, since        *)
(* nothing reads from buf, and so are its loads and the stores b.off = 0;  *)
(* b.lastRead is only stored.  The variable buf is b.buf[b.off:].          *)
(* A panic ends its worker at once and the process in a later step.        *)

\* ["a"]
X_StringA == <<91, 34, 97, 34, 93>>

\* {"a":1}
X_ObjectA1 == <<123, 34, 97, 34, 58, 49, 125>>

\* [10]
X_Number10 == <<91, 49, 48, 93>>

\* ["\"] then the end of the input: a string that does not end
X_Escape == <<91, 34, 92, 34, 93>>

Workers == {1, 2}

\* the second worker's view of its state
Cur2 == [p |-> w2.p, buf |-> buf, bbuf |-> w2.bbuf, isFloat |-> w2.isFloat,
         pc |-> w2.pc, stack |-> w2.stack, out |-> <<>>,
         docStart |-> w2.docStart]

View(w) == IF w = 1 THEN Cur ELSE Cur2

\* what the source of worker w may return to the read its next step starts
\* with; NoRead when the step starts without one
ReadsTwo(w) ==
    IF ~StartsWithRead(View(w).pc) THEN {NoRead}
    ELSE IF w = 1 THEN Reads
    ELSE ReadsOf(w2.p, w2.profile, w2.pc, buf)

\* what the code that takes a worker from s to n after the read o does to
\* buf:
\* buf.Reset() on the way into readString and readNumber, buf.WriteByte(r)
\* in their loops, buf.String() or buf.Bytes() after them
BufOp(s, o, n) ==
    IF s.pc = "ObjectKey" \/ (s.pc = "Value" /\ n.pc \in {"String", "Number"})
    THEN "Reset"
    ELSE IF s.pc \in {"Number", "StringBody"} /\ Len(n.buf) = Len(s.buf) + 1
    THEN "WriteByte"
    ELSE IF s.pc \in {"Number", "StringBody"} /\ readByteResult(o) # eof
    THEN "String"
    ELSE "none"

\* the capacity of the array that grow() makes for an empty Buffer
smallBufferSize == 64

\* byte i of the array id
ByteAt(m, id, i) ==
    IF id # 0 /\ i < Len(m.arr[id]) THEN m.arr[id][i + 1] ELSE NUL

\* b.buf[b.off:], given the state m of the memory
Visible(m) ==
    IF m.ptr = 0 THEN <<>> ELSE [i \in 1..m.len |-> ByteAt(m, m.ptr, i - 1)]

\* the memory of buf becomes m
Shared(m) == mem' = m /\ buf' = Visible(mem')

\* the operation of worker w after its load of the word x of b.buf
LoadWord(w, x) == [mem.op[w] EXCEPT !.h[x] = mem[x], !.left = @ \ {x}]

\* the memory after worker w has stored the word x of its slice in b.buf
StoreWord(w, x) == [mem EXCEPT ![x] = mem.op[w].h[x], !.op[w].left = @ \ {x}]

\* the array a after the store of the byte c at index i
StoreByte(a, i, c) ==
    [(IF i < Len(a) THEN a ELSE a \o Zeros(i + 1 - Len(a))) EXCEPT ![i + 1] = c]

\* worker w is running, between two steps
Idle(w) ==
    /\ ~mem.exited
    /\ mem.op[w].k = "none"
    /\ View(w).pc # "Done"
    /\ IF w = 1 THEN ch = <<>> ELSE w2.ch = <<>>

\* worker w is inside the operation on buf whose next part is k
Inside(w, k) == ~mem.exited /\ mem.op[w].k = k

\* worker w moves to the state n; buf and mem are another matter
Move(w, n) ==
    IF w = 1
    THEN /\ p' = n.p
         /\ bbuf' = n.bbuf
         /\ isFloat' = n.isFloat
         /\ pc' = n.pc
         /\ stack' = n.stack
         /\ ch' = n.out
         /\ docStart' = n.docStart
         /\ UNCHANGED <<received, profile, consumer, w2>>
    ELSE /\ w2' = [w2 EXCEPT !.p = n.p, !.bbuf = n.bbuf, !.isFloat = n.isFloat,
                             !.pc = n.pc, !.stack = n.stack, !.ch = n.out,
                             !.docStart = n.docStart]
         /\ UNCHANGED <<p, bbuf, isFloat, pc, stack, ch, received, docStart,
                        profile, consumer>>

\* a part of an operation on buf, after which the worker is where it was
Stay ==
    UNCHANGED <<p, bbuf, isFloat, pc, stack, ch, received, docStart, profile,
                consumer, w2>>

\* a step that leaves buf alone
Alone(w) ==
    /\ Idle(w)
    /\ \E s \in {View(w)} : \E o \in ReadsTwo(w) :
          \E n \in {Handle(s.pc, s, o)} :
             /\ BufOp(s, o, n) = "none"
             /\ Move(w, n)
    /\ UNCHANGED <<buf, mem>>

\* a step with buf.Reset(): b.buf = b.buf[:0], the store of the length
Reset(w) ==
    /\ Idle(w)
    /\ \E s \in {View(w)} : \E o \in ReadsTwo(w) :
          \E n \in {Handle(s.pc, s, o)} :
             /\ BufOp(s, o, n) = "Reset"
             /\ Move(w, n)
    /\ Shared([mem EXCEPT !.len = 0])

\* the read of a byte and the call buf.WriteByte(r)
WriteByteCall(w) ==
    /\ Idle(w)
    /\ \E s \in {View(w)} : \E o \in ReadsTwo(w) :
          /\ BufOp(s, o, Handle(s.pc, s, o)) = "WriteByte"
          /\ Shared([mem EXCEPT !.op[w] =
                        [NoOp EXCEPT !.k = "room", !.left = {"len", "cap"},
                                     !.o = o]])
    /\ Stay

\* tryGrowByReslice(1) after a load: with both words loaded, the test
\* n <= cap(b.buf) - l.  Without room WriteByte calls grow(1), and grow(),
\* which has called it again, goes on to its test for nil.
RoomTested(op) ==
    IF op.left # {} THEN op
    ELSE IF 1 <= op.h.cap - op.h.len THEN [op EXCEPT !.k = "reslice"]
    ELSE IF op.grow THEN [op EXCEPT !.k = "nil"]
    ELSE [op EXCEPT !.k = "grow"]

\* tryGrowByReslice(1): a load of len(b.buf) or of cap(b.buf)
WriteByteRoom(w) ==
    /\ Inside(w, "room")
    /\ \E x \in mem.op[w].left :
          Shared([mem EXCEPT !.op[w] = RoomTested(LoadWord(w, x))])
    /\ Stay

\* tryGrowByReslice(1): b.buf = b.buf[:l+1], the store of the length
\* loaded before plus one; it returns l
WriteByteReslice(w) ==
    /\ Inside(w, "reslice")
    /\ Shared([mem EXCEPT !.len = mem.op[w].h.len + 1,
                          !.op[w].m = mem.op[w].h.len,
                          !.op[w].k = "index",
                          !.op[w].left = {"len", "ptr"}])
    /\ Stay

\* grow(1): m := b.Len(), a load of the length; then tryGrowByReslice(1)
\* once more
WriteByteGrow(w) ==
    /\ Inside(w, "grow")
    /\ Shared([mem EXCEPT !.op[w].m = mem.len,
                          !.op[w].grow = TRUE,
                          !.op[w].k = "room",
                          !.op[w].left = {"len", "cap"}])
    /\ Stay

\* grow(1): the test b.buf == nil, a load of the array.  For nil it goes
\* on to b.buf = make([]byte, 1, smallBufferSize), else to c := cap(b.buf).
WriteByteNil(w) ==
    /\ Inside(w, "nil")
    /\ Shared(IF mem.ptr = 0
              THEN [mem EXCEPT !.op[w].k = "make",
                               !.op[w].h = [ptr |-> w, len |-> 1,
                                            cap |-> smallBufferSize],
                               !.op[w].left = {"ptr", "len", "cap"}]
              ELSE [mem EXCEPT !.op[w].k = "slide"])
    /\ Stay

\* grow(1), b.buf = make([]byte, 1, smallBufferSize): the store of one
\* word of the new slice, whose array is all zeros.  After the last word
\* grow() returns 0.
WriteByteMake(w) ==
    /\ Inside(w, "make")
    /\ \E x \in mem.op[w].left :
          Shared(IF mem.op[w].left = {x}
                 THEN [StoreWord(w, x) EXCEPT !.op[w].k = "index",
                                              !.op[w].m = 0,
                                              !.op[w].left = {"len", "ptr"}]
                 ELSE StoreWord(w, x))
    /\ Stay

\* grow(1), b.buf not nil: c := cap(b.buf), a load of the capacity, and
\* the test n <= c/2 - m.  With room for twice the bytes it slides them
\* down with copy(b.buf, b.buf[b.off:]), else it calls growSlice.
WriteByteSlide(w) ==
    /\ Inside(w, "slide")
    /\ Shared(IF 1 <= (mem.cap \div 2) - mem.op[w].m
              THEN [mem EXCEPT !.op[w].k = "copy"]
              ELSE [mem EXCEPT !.op[w].k = "slice",
                               !.op[w].left = {"ptr", "len", "cap"}])
    /\ Stay

\* grow(1), copy(b.buf, b.buf[b.off:]): the load of the array to copy to
WriteByteCopy(w) ==
    /\ Inside(w, "copy")
    /\ Shared([mem EXCEPT !.op[w].k = "copyfrom", !.op[w].h.ptr = mem.ptr])
    /\ Stay

\* grow(1), copy(b.buf, b.buf[b.off:]): the load of the array to copy
\* from.  It is the array to copy to (CopyMovesNothing), so that copy
\* moves no byte.
WriteByteCopyFrom(w) ==
    /\ Inside(w, "copyfrom")
    /\ mem.ptr = mem.op[w].h.ptr
    /\ Shared([mem EXCEPT !.op[w].k = "restore"])
    /\ Stay

\* grow(1), growSlice(b.buf[b.off:], b.off+1): a load of one word of b.buf
GrowSliceLoad(w) ==
    /\ Inside(w, "slice")
    /\ \E x \in mem.op[w].left : Shared([mem EXCEPT !.op[w] = LoadWord(w, x)])
    /\ Stay

\* growSlice, copy(b2, b): the load of one more byte of the array of b
GrowSliceCopy(w) ==
    LET op == mem.op[w]
    IN  /\ Inside(w, "slice")
        /\ op.left = {}
        /\ Len(op.got) < op.h.len
        /\ Shared([mem EXCEPT !.op[w].got =
                                Append(op.got, ByteAt(mem, op.h.ptr, Len(op.got)))])
        /\ Stay

\* growSlice: its result b2[:len(b)], a slice of a new array with the
\* bytes copied.  c is len(b) + 1 or twice cap(b), and the allocator makes
\* it 8 bytes at least.
GrowSliceNew(w) ==
    LET op == mem.op[w]
        c == IF op.h.len + 1 < 2 * op.h.cap THEN 2 * op.h.cap ELSE op.h.len + 1
    IN  /\ Inside(w, "slice")
        /\ op.left = {}
        /\ Len(op.got) = op.h.len
        /\ Shared([mem EXCEPT !.arr[w] = op.got,
                              !.op[w].k = "grown",
                              !.op[w].h = [ptr |-> w, len |-> op.h.len,
                                           cap |-> IF c <= 8 THEN 8 ELSE c],
                              !.op[w].left = {"ptr", "len", "cap"},
                              !.op[w].got = <<>>])
        /\ Stay

\* grow(1), b.buf = growSlice(...): the store of one word of the result
GrowSliceStore(w) ==
    /\ Inside(w, "grown")
    /\ \E x \in mem.op[w].left :
          Shared(IF mem.op[w].left = {x}
                 THEN [StoreWord(w, x) EXCEPT !.op[w].k = "restore"]
                 ELSE StoreWord(w, x))
    /\ Stay

\* grow(1): b.off = 0 and b.buf = b.buf[:m+1], the store of the length;
\* the capacity is m + 1 at least (RestoreFits).  grow() returns m.
WriteByteRestore(w) ==
    /\ Inside(w, "restore")
    /\ Shared([mem EXCEPT !.len = mem.op[w].m + 1,
                          !.op[w].k = "index",
                          !.op[w].left = {"len", "ptr"}])
    /\ Stay

\* buf.WriteByte, b.buf[m] = r: a load of the length or of the array
WriteByteIndex(w) ==
    /\ Inside(w, "index")
    /\ \E x \in mem.op[w].left : Shared([mem EXCEPT !.op[w] = LoadWord(w, x)])
    /\ Stay

\* buf.WriteByte, b.buf[m] = r: the index m is out of range, as the other
\* worker has made b.buf shorter since the length was stored, or the
\* array is nil, as the other worker has stored the capacity of its slice
\* but not yet its array.  The runtime panics: the worker goes no further.
WriteBytePanic(w) ==
    LET op == mem.op[w]
    IN  /\ Inside(w, "index")
        /\ op.left = {}
        /\ op.m >= op.h.len \/ op.h.ptr = 0
        /\ Shared([mem EXCEPT !.op[w].k = "panic"])
        /\ Stay

\* buf.WriteByte, b.buf[m] = r: the store of the byte in the array that
\* was loaded; the worker then goes on to its next read
WriteByteStore(w) ==
    LET op == mem.op[w]
    IN  /\ Inside(w, "index")
        /\ op.left = {}
        /\ op.m < op.h.len /\ op.h.ptr # 0
        /\ Shared([mem EXCEPT !.arr[op.h.ptr] =
                                StoreByte(@, op.m, readByteResult(op.o)),
                              !.op[w] = NoOp])
        /\ \E n \in {Handle(View(w).pc, View(w), op.o)} : Move(w, n)

\* the read of the byte that ends a number or a string, and the call
\* buf.String() or buf.Bytes()
StringCall(w) ==
    /\ Idle(w)
    /\ \E s \in {View(w)} : \E o \in ReadsTwo(w) :
          /\ BufOp(s, o, Handle(s.pc, s, o)) = "String"
          /\ Shared([mem EXCEPT !.op[w] =
                        [NoOp EXCEPT !.k = "bytes", !.left = {"ptr", "len"},
                                     !.o = o]])
    /\ Stay

\* b.buf[b.off:] in buf.String() and buf.Bytes(): a load of the array or
\* of the length (the capacity is not used)
StringLoad(w) ==
    /\ Inside(w, "bytes")
    /\ \E x \in mem.op[w].left : Shared([mem EXCEPT !.op[w] = LoadWord(w, x)])
    /\ Stay

\* readNumber: the load of one more of the bytes that buf.String() copies
StringCopy(w) ==
    LET op == mem.op[w]
    IN  /\ Inside(w, "bytes")
        /\ op.left = {}
        /\ View(w).pc = "Number"
        /\ Len(op.got) < op.h.len
        /\ Shared([mem EXCEPT !.op[w].got =
                                Append(op.got, ByteAt(mem, op.h.ptr, Len(op.got)))])
        /\ Stay

\* the rest of readNumber, with the bytes that were copied
StringDone(w) ==
    LET op == mem.op[w]
    IN  /\ Inside(w, "bytes")
        /\ op.left = {}
        /\ View(w).pc = "Number"
        /\ Len(op.got) = op.h.len
        /\ Shared([mem EXCEPT !.op[w] = NoOp])
        /\ \E n \in {Handle(View(w).pc, [View(w) EXCEPT !.buf = op.got], op.o)} :
              Move(w, n)

\* readString: the next load of decodeToUTF8(buf.Bytes()), or of
\* string(decoded) when decodeToUTF8 has returned the slice it was given
DecodeLoad(w) ==
    LET op == mem.op[w]
        d == decodeLoads(op.got, op.h.len)
    IN  /\ Inside(w, "bytes")
        /\ op.left = {}
        /\ View(w).pc = "StringBody"
        /\ d.st = "load"
        /\ Shared([mem EXCEPT !.op[w].got =
                                Append(op.got, ByteAt(mem, op.h.ptr, d.i))])
        /\ Stay

\* the rest of readString, with what the loads have given
DecodeDone(w) ==
    LET op == mem.op[w]
        d == decodeLoads(op.got, op.h.len)
        s == View(w)
    IN  /\ Inside(w, "bytes")
        /\ op.left = {}
        /\ s.pc = "StringBody"
        /\ d.st = "done"
        /\ Shared([mem EXCEPT !.op[w] = NoOp])
        /\ \E n \in {readStringEnd([s EXCEPT !.p = readByte(s.p, op.o)],
                                     [ok |-> d.ok, t |-> d.t])} : Move(w, n)

\* one step of a worker, or one part of its operation on buf
WorkOf(w) ==
    \/ Alone(w) \/ Reset(w)
    \/ WriteByteCall(w) \/ WriteByteRoom(w) \/ WriteByteReslice(w)
    \/ WriteByteGrow(w) \/ WriteByteNil(w) \/ WriteByteMake(w)
    \/ WriteByteSlide(w) \/ WriteByteCopy(w) \/ WriteByteCopyFrom(w)
    \/ GrowSliceLoad(w) \/ GrowSliceCopy(w) \/ GrowSliceNew(w)
    \/ GrowSliceStore(w) \/ WriteByteRestore(w)
    \/ WriteByteIndex(w) \/ WriteBytePanic(w) \/ WriteByteStore(w)
    \/ StringCall(w) \/ StringLoad(w) \/ StringCopy(w) \/ StringDone(w)
    \/ DecodeLoad(w) \/ DecodeDone(w)

Work1 == WorkOf(1)
Work2 == WorkOf(2)

\* the second consumer takes the event the second worker is sending
Receive2 ==
    /\ w2.ch # <<>>
    /\ w2' = [w2 EXCEPT !.received = Append(w2.received, w2.ch[1]), !.ch = <<>>]
    /\ UNCHANGED <<p, buf, bbuf, isFloat, pc, stack, ch, received, docStart,
                   profile, consumer, mem>>

\* the consumers, while the process lives
ReceiveTwo == ~mem.exited /\ (Receive \/ Receive2)

\* a worker has panicked and nothing recovers: the runtime ends the
\* process, the other worker and both consumers with it
Exit ==
    /\ ~mem.exited
    /\ \E w \in Workers : mem.op[w].k = "panic"
    /\ Shared([mem EXCEPT !.exited = TRUE])
    /\ Stay

\* copy(b.buf, b.buf[b.off:]) in grow() finds one array in both operands
CopyMovesNothing ==
    \A w \in Workers : mem.op[w].k = "copyfrom" => mem.ptr = mem.op[w].h.ptr

\* b.buf[:m+1] in grow() is within the capacity
RestoreFits ==
    \A w \in Workers : mem.op[w].k = "restore" => mem.op[w].m + 1 <= mem.cap

\* the bytes that buf.String() and decodeToUTF8 load are bytes of an array
BytesHaveArray ==
    \A w \in Workers :
        (mem.op[w].k = "bytes" /\ mem.op[w].left = {} /\ mem.op[w].h.len > 0)
            => mem.op[w].h.ptr # 0

InitTwo ==
    /\ p = NewParser
    /\ buf = <<>>
    /\ bbuf = <<>>
    /\ isFloat = FALSE
    /\ pc = "Parse"
    /\ stack = <<>>
    /\ ch = <<>>
    /\ received = <<>>
    /\ docStart = 0
    /\ consumer = "receiving"
    /\ \E x \in {<<X_StringA, X_Number10>>, <<X_ObjectA1, X_Number10>>,
                  <<X_StringA, X_Escape>>} :
          /\ profile = Script(x[1])
          /\ w2 = [NoWorker EXCEPT !.pc = "Parse", !.profile = Script(x[2])]
    /\ mem = NoRace

NextTwo == Work1 \/ Work2 \/ ReceiveTwo \/ Exit

SpecTwo == InitTwo /\ [][NextTwo]_vars

emitted2 == w2.received \o w2.ch

Returned2 == w2.pc = "Done" /\ w2.ch = <<>>

\* Parse has returned
Returned == pc = "Done" /\ ch = <<>>

----------------------------------------------------------------------------
(* Two runs, side by side.  The first run is the worker of the variables   *)
(* above; the second, in w2, is a run in a process of its own, whose       *)
(* scratch buffer holds at the start whatever an earlier run has left in   *)
(* it.  Both read a scripted input.  As long as every read has returned    *)
(* the same to both, they take their steps together; then the input of     *)
(* the first run may end, or fail, where the second run's goes on, and     *)
(* the second run is followed alone.                                       *)

\* every read so far has returned the same to both runs
Together == p.data = w2.p.data /\ p.src = w2.p.src

\* the second run's view of its state
CurB == [p |-> w2.p, buf |-> w2.buf, bbuf |-> w2.bbuf, isFloat |-> w2.isFloat,
         pc |-> w2.pc, stack |-> w2.stack, out |-> <<>>,
         docStart |-> w2.docStart]

\* the first run moves to the state a, the second to the state b
PairStep(a, b) ==
    /\ p' = a.p
    /\ buf' = a.buf
    /\ bbuf' = a.bbuf
    /\ isFloat' = a.isFloat
    /\ pc' = a.pc
    /\ stack' = a.stack
    /\ ch' = a.out
    /\ docStart' = a.docStart
    /\ w2' = [w2 EXCEPT !.p = b.p, !.buf = b.buf, !.bbuf = b.bbuf,
                        !.isFloat = b.isFloat, !.pc = b.pc, !.stack = b.stack,
                        !.ch = b.out, !.docStart = b.docStart]
    /\ UNCHANGED <<received, profile, consumer, mem>>

\* the second run alone moves to the state b
StepB(b) ==
    /\ w2' = [w2 EXCEPT !.p = b.p, !.buf = b.buf, !.bbuf = b.bbuf,
                        !.isFloat = b.isFloat, !.pc = b.pc, !.stack = b.stack,
                        !.ch = b.out, !.docStart = b.docStart]
    /\ UNCHANGED <<p, buf, bbuf, isFloat, pc, stack, ch, received, docStart,
                   profile, consumer, mem>>

BothReady == pc # "Done" /\ ch = <<>> /\ w2.pc # "Done" /\ w2.ch = <<>>

\* one step of each run, on reads that return the same
PairWork ==
    /\ Together
    /\ BothReady
    /\ \/ /\ ~StartsWithRead(pc)
          /\ PairStep(Handle(pc, Cur, NoRead), Handle(w2.pc, CurB, NoRead))
       \/ /\ StartsWithRead(pc)
          /\ \E o \in Reads :
                PairStep(Handle(pc, Cur, o), Handle(w2.pc, CurB, o))

\* each consumer takes the event its worker is sending
PairReceive ==
    /\ Together
    /\ ch # <<>> /\ w2.ch # <<>>
    /\ received' = Append(received, ch[1])
    /\ ch' = <<>>
    /\ w2' = [w2 EXCEPT !.received = Append(w2.received, w2.ch[1]), !.ch = <<>>]
    /\ UNCHANGED <<p, buf, bbuf, isFloat, pc, stack, docStart, profile, consumer,
                   mem>>

\* the first run's read fails where the second run's returns the next byte
Truncate ==
    /\ Together
    /\ BothReady
    /\ StartsWithRead(pc)
    /\ p.off = Len(p.data)
    /\ Len(p.data) < Len(profile.script)
    /\ \E e \in {IoEOF, IoErr} :
          PairStep(Handle(pc, Cur, FailedRead(e)),
                   Handle(w2.pc, CurB, ByteRead(profile.script[Len(p.data) + 1])))

\* the first run, after its input has ended: its last event is received
TruncatedReceive == ~Together /\ Receive

\* the second run, alone
ExtensionWork ==
    /\ ~Together
    /\ w2.pc # "Done" /\ w2.ch = <<>>
    /\ \/ ~StartsWithRead(w2.pc) /\ StepB(Handle(w2.pc, CurB, NoRead))
       \/ /\ StartsWithRead(w2.pc)
          /\ \E o \in ReadsOf(w2.p, w2.profile, w2.pc, w2.buf) :
                StepB(Handle(w2.pc, CurB, o))

ExtensionReceive == ~Together /\ Receive2

InitPair ==
    /\ p = NewParser
    /\ buf = <<>>
    /\ bbuf = <<>>
    /\ isFloat = FALSE
    /\ pc = "Parse"
    /\ stack = <<>>
    /\ ch = <<>>
    /\ received = <<>>
    /\ docStart = 0
    /\ profile \in {Script(t) : t \in Scripts}
    /\ consumer = "receiving"
    /\ \E left \in {<<>>, <<LOWER_A>>} :
          w2 = [NoWorker EXCEPT !.pc = "Parse", !.profile = profile, !.buf = left]
    /\ mem = NoRace

NextPair ==
    \/ PairWork \/ PairReceive \/ Truncate
    \/ TruncatedReceive \/ ExtensionWork \/ ExtensionReceive

SpecPair == InitPair /\ [][NextPair]_vars

----------------------------------------------------------------------------
(* Strings.  The inputs are the arrays of one string, ["..."], whose raw   *)
(* bytes are made of up to MaxPieces pieces: a letter, escapes of every    *)
(* kind that decodeToUTF8 tells apart, and the bytes it rejects.           *)

MaxPieces == 3      \* pieces in the raw bytes of the string

P_Letter == <<97>>                              \* a
P_Escape0041 == <<92, 117, 48, 48, 52, 49>>     \* A, the letter A
P_Escape00e9 == <<92, 117, 48, 48, 101, 57>>    \* é, two bytes of UTF-8
P_High == <<92, 117, 68, 56, 51, 68>>           \* \uD83D, a high surrogate
P_Low == <<92, 117, 68, 69, 48, 48>>            \* \uDE00, a low surrogate
P_Newline == <<92, 110>>                        \* \n
P_BadEscape == <<92, 120>>                      \* \x
P_Backslash == <<92>>                           \* a backslash
P_Control == <<1>>                              \* the byte 0x01
P_ShortU == <<92, 117, 48, 48>>                 \* \u00
P_BadHex == <<92, 117, 48, 48, 103, 48>>        \* \u00g0
P_Nul == <<0>>                                  \* the byte 0x00

Pieces ==
    {P_Letter, P_Escape0041, P_Escape00e9, P_High, P_Low, P_Newline,
     P_BadEscape, P_Backslash, P_Control, P_ShortU, P_BadHex, P_Nul}

RECURSIVE Flatten(_)
Flatten(ps) == IF ps = <<>> THEN <<>> ELSE Head(ps) \o Flatten(Tail(ps))

PieceSeqs == UNION {[1..n -> Pieces] : n \in 0..MaxPieces}

\* ["..."]
StringScript(ps) == <<LBRACKET, QUOTE>> \o Flatten(ps) \o <<QUOTE, RBRACKET>>

InitString ==
    /\ p = NewParser
    /\ buf = <<>>
    /\ bbuf = <<>>
    /\ isFloat = FALSE
    /\ pc = "Parse"
    /\ stack = <<>>
    /\ ch = <<>>
    /\ received = <<>>
    /\ docStart = 0
    /\ profile \in {Script(StringScript(ps)) : ps \in PieceSeqs}
    /\ consumer = "receiving"
    /\ w2 = NoWorker
    /\ mem = NoRace

NextString == Work \/ Receive

SpecString == InitString /\ [][NextString]_vars

----------------------------------------------------------------------------
(* Integers at the ends of the int64 range.  The inputs are the arrays of  *)
(* one number, [n], where n is an optional sign and one of the digit runs  *)
(* below.                                                                  *)

D_Ten == <<1, 0>>
D_MaxInt64 == <<9, 2, 2, 3, 3, 7, 2, 0, 3, 6, 8, 5, 4, 7, 7, 5, 8, 0, 7>>
D_MaxInt64Zeros ==
    <<0, 0, 0, 9, 2, 2, 3, 3, 7, 2, 0, 3, 6, 8, 5, 4, 7, 7, 5, 8, 0, 7>>
D_2to63 == <<9, 2, 2, 3, 3, 7, 2, 0, 3, 6, 8, 5, 4, 7, 7, 5, 8, 0, 8>>
D_2to63Plus1 == <<9, 2, 2, 3, 3, 7, 2, 0, 3, 6, 8, 5, 4, 7, 7, 5, 8, 0, 9>>
D_10to19 == <<1, 0, 0, 0, 0, 0, 0, 0, 0, 0, 0, 0, 0, 0, 0, 0, 0, 0, 0, 0>>
D_2to64 == <<1, 8, 4, 4, 6, 7, 4, 4, 0, 7, 3, 7, 0, 9, 5, 5, 1, 6, 1, 6>>
D_2to64Plus1 == <<1, 8, 4, 4, 6, 7, 4, 4, 0, 7, 3, 7, 0, 9, 5, 5, 1, 6, 1, 7>>

DigitRuns ==
    {D_Ten, D_MaxInt64, D_MaxInt64Zeros, D_2to63, D_2to63Plus1, D_10to19,
     D_2to64, D_2to64Plus1}

Signs == {<<>>, <<MINUS>>, <<PLUS>>}

\* [n]
NumberScript(sign, d) ==
    <<LBRACKET>> \o sign \o [i \in 1..Len(d) |-> d[i] + ZERO] \o <<RBRACKET>>

InitNumber ==
    /\ p = NewParser
    /\ buf = <<>>
    /\ bbuf = <<>>
    /\ isFloat = FALSE
    /\ pc = "Parse"
    /\ stack = <<>>
    /\ ch = <<>>
    /\ received = <<>>
    /\ docStart = 0
    /\ profile \in {Script(NumberScript(sign, d)) : sign \in Signs, d \in DigitRuns}
    /\ consumer = "receiving"
    /\ w2 = NoWorker
    /\ mem = NoRace

NextNumber == Work \/ Receive

SpecNumber == InitNumber /\ [][NextNumber]_vars

----------------------------------------------------------------------------
(* The reference: the JSON grammar (RFC 8259, without null) read as the    *)
(* list of events a document stands for.  It is what the properties below  *)
(* compare the worker's events with; it is no part of the program.  Every  *)
(* Ref operator takes the input d and the number i of bytes already used,  *)
(* and returns ok, the number of bytes used after it, and the events.      *)

RefFail == [ok |-> FALSE, i |-> 0, ev |-> <<>>]
RefOk(i, ev) == [ok |-> TRUE, i |-> i, ev |-> ev]
Ev(typ) == Event(typ, NilValue, Nil)

\* the byte after the first i bytes, -1 at the end
At(d, i) == IF i < Len(d) THEN d[i + 1] ELSE -1

RECURSIVE RefSkipWs(_, _)
RefSkipWs(d, i) ==
    IF At(d, i) \in {SPACE, TAB, LF, CR} THEN RefSkipWs(d, i + 1) ELSE i

RECURSIVE RefDigitsEnd(_, _)
RefDigitsEnd(d, i) == IF isDigit(At(d, i)) THEN RefDigitsEnd(d, i + 1) ELSE i

\* the closing quote of the string whose contents start after i bytes
RECURSIVE RefStringEnd(_, _)
RefStringEnd(d, i) ==
    LET c == At(d, i)
        x == At(d, i + 1)
    IN  IF c < SPACE THEN -1
        ELSE IF c = QUOTE THEN i
        ELSE IF c # BACKSLASH THEN RefStringEnd(d, i + 1)
        ELSE IF x \in {QUOTE, BACKSLASH, SLASH, LOWER_B, LOWER_F, LOWER_N,
                       LOWER_R, LOWER_T}
        THEN RefStringEnd(d, i + 2)
        ELSE IF x = LOWER_U /\ getu4(d, i) >= 0 THEN RefStringEnd(d, i + 6)
        ELSE -1

RefString(d, i) ==
    LET end == RefStringEnd(d, i + 1)
    IN  IF At(d, i) # QUOTE \/ end < 0 THEN RefFail
        ELSE RefOk(end + 1,
                   <<Event("StringEvent",
                           StringValue(decodeToUTF8(SubSeq(d, i + 2, end)).t), Nil)>>)

RefNumber(d, i) ==
    LET k0 == IF At(d, i) = MINUS THEN i + 1 ELSE i
        k1 == IF At(d, k0) = ZERO THEN k0 + 1 ELSE RefDigitsEnd(d, k0)
        frac == At(d, k1) = DOT
        k2 == IF frac THEN RefDigitsEnd(d, k1 + 1) ELSE k1
        exp == At(d, k2) \in {LOWER_E, UPPER_E}
        k3s == IF At(d, k2 + 1) \in {PLUS, MINUS} THEN k2 + 2 ELSE k2 + 1
        k3 == IF exp THEN RefDigitsEnd(d, k3s) ELSE k2
        text == SubSeq(d, i + 1, k3)
        n == IF frac \/ exp THEN ParseFloat(text) ELSE ParseInt(text)
    IN  IF k1 = k0 \/ (frac /\ k2 = k1 + 1) \/ (exp /\ k3 = k3s) \/ n.err # ""
        THEN RefFail
        ELSE RefOk(k3, <<Event("NumberEvent", n.v, Nil)>>)

RefBoolean(d, i) ==
    IF i + 4 <= Len(d) /\ SubSeq(d, i + 1, i + 4) = <<LOWER_T, LOWER_R, LOWER_U, LOWER_E>>
    THEN RefOk(i + 4, <<Event("BooleanEvent", BoolValue(TRUE), Nil)>>)
    ELSE IF /\ i + 5 <= Len(d)
            /\ SubSeq(d, i + 1, i + 5) = <<LOWER_F, LOWER_A, LOWER_L, LOWER_S, LOWER_E>>
    THEN RefOk(i + 5, <<Event("BooleanEvent", BoolValue(FALSE), Nil)>>)
    ELSE RefFail

RECURSIVE RefValue(_, _), RefMembers(_, _, _), RefElements(_, _, _)

RefObject(d, i) ==
    LET j == RefSkipWs(d, i + 1)
    IN  IF At(d, j) = RBRACE
        THEN RefOk(j + 1, <<Ev("ObjectStartEvent"), Ev("ObjectEndEvent")>>)
        ELSE RefMembers(d, j, <<Ev("ObjectStartEvent")>>)

RefArray(d, i) ==
    LET j == RefSkipWs(d, i + 1)
    IN  IF At(d, j) = RBRACKET
        THEN RefOk(j + 1, <<Ev("ArrayStartEvent"), Ev("ArrayEndEvent")>>)
        ELSE RefElements(d, j, <<Ev("ArrayStartEvent")>>)

RefValue(d, i) ==
    LET c == At(d, i)
    IN  IF c = QUOTE THEN RefString(d, i)
        ELSE IF c = MINUS \/ isDigit(c) THEN RefNumber(d, i)
        ELSE IF c = LOWER_T \/ c = LOWER_F THEN RefBoolean(d, i)
        ELSE IF c = LBRACE THEN RefObject(d, i)
        ELSE IF c = LBRACKET THEN RefArray(d, i)
        ELSE RefFail

\* the members of an object from the key that starts after i bytes
RefMembers(d, i, acc) ==
    LET k == RefString(d, i)
        colon == RefSkipWs(d, k.i)
        v == RefValue(d, RefSkipWs(d, colon + 1))
        sep == RefSkipWs(d, v.i)
        ev == acc \o <<Ev("ObjectKeyEvent")>> \o k.ev
                  \o <<Ev("ObjectValueEvent")>> \o v.ev
    IN  IF ~k.ok \/ At(d, colon) # COLON \/ ~v.ok THEN RefFail
        ELSE IF At(d, sep) = RBRACE THEN RefOk(sep + 1, Append(ev, Ev("ObjectEndEvent")))
        ELSE IF At(d, sep) = COMMA THEN RefMembers(d, RefSkipWs(d, sep + 1), ev)
        ELSE RefFail

\* the elements of an array from the value that starts after i bytes
RefElements(d, i, acc) ==
    LET v == RefValue(d, i)
        sep == RefSkipWs(d, v.i)
        ev == acc \o v.ev
    IN  IF ~v.ok THEN RefFail
        ELSE IF At(d, sep) = RBRACKET THEN RefOk(sep + 1, Append(ev, Ev("ArrayEndEvent")))
        ELSE IF At(d, sep) = COMMA THEN RefElements(d, RefSkipWs(d, sep + 1), ev)
        ELSE RefFail

\* one top-level value: an object or an array
RefDocument(d, i) ==
    IF At(d, i) = LBRACE THEN RefObject(d, i)
    ELSE IF At(d, i) = LBRACKET THEN RefArray(d, i)
    ELSE RefFail

\* a stream: top-level values, each followed by optional whitespace;
\* n counts the values
RECURSIVE RefStreamFrom(_, _, _, _)
RefStreamFrom(d, i, acc, n) ==
    LET v == RefDocument(d, i)
        j == RefSkipWs(d, v.i)
    IN  IF ~v.ok THEN [ok |-> FALSE, ev |-> <<>>, n |-> 0]
        ELSE IF j = Len(d) THEN [ok |-> TRUE, ev |-> acc \o v.ev, n |-> n + 1]
        ELSE RefStreamFrom(d, j, acc \o v.ev, n + 1)

RefStream(d) == RefStreamFrom(d, 0, <<>>, 0)

----------------------------------------------------------------------------
(* What the properties speak of.                                           *)

\* the whole content of the byte source, once it is known: the bytes read
\* when the source has ended, the script while a scripted source is open
ContentKnown == p.src = "io.EOF" \/ (p.src = "open" /\ profile.script # <<>>)
Content == IF p.src = "io.EOF" THEN p.data ELSE profile.script

Types(events) == [i \in 1..Len(events) |-> events[i].Type]

HasEscapedQuote(d) ==
    \E i \in 1..Len(d) - 1 : d[i] = BACKSLASH /\ d[i + 1] = QUOTE

\* The worker agrees with the reference on every valid stream without an
\* escaped quote.
AgreesWithReference ==
    Returned /\ ContentKnown /\ RefStream(Content).ok /\ ~HasEscapedQuote(Content)
        => emitted = RefStream(Content).ev

Last(events) == events[Len(events)]

EOFEvents(events) == {i \in 1..Len(events) : events[i].Type = "EOFEvent"}

----------------------------------------------------------------------------
(* C1 *)

\* C1, as stated: when the input is one or more complete top-level values,
\* optionally separated and followed by whitespace, the events Parse sends
\* end with exactly one EOFEvent, whose Error is nil.
C1_EndsWithNilEOFEvent ==
    Returned /\ p.src = "io.EOF" /\ RefStream(p.data).ok
        => /\ emitted # <<>>
           /\ Last(emitted) = Event("EOFEvent", NilValue, Nil)
           /\ Cardinality(EOFEvents(emitted)) = 1

\* C1, amended: when Parse meets the end of the input right after a
\* top-level value it parsed without failure (trailing whitespace skipped),
\* it returns without sending an EOFEvent: no event sent is an EOFEvent and
\* the last one is the ObjectEnd or ArrayEnd of the last value.
C1_NoEOFEventOnCleanEnd ==
    [][pc = "ParseNext" /\ pc' = "Done" /\ p'.err = IoEOF
          => /\ ch' = <<>>
             /\ EOFEvents(received) = {}
             /\ received # <<>>
             /\ Last(received).Type \in {"ObjectEndEvent", "ArrayEndEvent"}]_vars

\* two top-level values with whitespace between them have been parsed, the
\* input has ended and Parse has returned
C1_Witness ==
    /\ Returned /\ p.err = IoEOF
    /\ RefStream(p.data).ok /\ RefStream(p.data).n >= 2
    /\ WsCount(p.data) > 0
    /\ emitted = RefStream(p.data).ev

----------------------------------------------------------------------------
(* C2 *)

\* C2: when a grammar production fails (Parse ends anywhere but at the end
\* of input after a complete top-level value), the last thing Parse does is
\* to send one EOFEvent that carries a non-nil error, the only EOFEvent of
\* the run.
C2_FailureSendsErrorEvent ==
    [][pc \notin {"ParseNext", "Done"} /\ pc' = "Done"
          => /\ ch' # <<>>
             /\ ch'[1].Type = "EOFEvent"
             /\ ch'[1].Error # Nil
             /\ EOFEvents(received) = {}]_vars

----------------------------------------------------------------------------
(* C3, C4 *)

\* C3: for an input that is one valid object, the events sent are
\* ObjectStart, then per member and in input order ObjectKey, String(key),
\* ObjectValue and the events of the member's value, then ObjectEnd; for an
\* empty object they are ObjectStart, ObjectEnd.
C3_ObjectEvents ==
    (/\ Returned /\ ContentKnown
     /\ RefStream(Content).ok /\ RefStream(Content).n = 1
     /\ Content[1] = LBRACE)
        => emitted = RefObject(Content, 0).ev

\* C4: for an input that is one valid array, the events sent are
\* ArrayStart, then the events of the elements in input order with no
\* marker between them, then ArrayEnd; for an empty array they are
\* ArrayStart, ArrayEnd.
C4_ArrayEvents ==
    (/\ Returned /\ ContentKnown
     /\ RefStream(Content).ok /\ RefStream(Content).n = 1
     /\ Content[1] = LBRACKET)
        => emitted = RefArray(Content, 0).ev

----------------------------------------------------------------------------
(* C5 *)

\* the number a Number event carries, whatever its representation
NumericValue(v) ==
    LET sig == StripTrailingZeros(v.s)
    IN  IF sig = <<>> THEN [neg |-> FALSE, s |-> <<0>>, e |-> 0]
        ELSE [neg |-> v.neg, s |-> sig, e |-> v.e + Len(v.s) - Len(sig)]

TreeFail == [ok |-> FALSE, i |-> 0, v |-> <<>>]
TreeOk(i, v) == [ok |-> TRUE, i |-> i, v |-> v]

\* an object as a map: a later member replaces an earlier one of the same key
Put(m, k, v) == [x \in DOMAIN m \cup {k} |-> IF x = k THEN v ELSE m[x]]

\* the value that the events from index i on build
RECURSIVE Build(_, _), BuildMembers(_, _, _), BuildElements(_, _, _)
Build(ev, i) ==
    IF i > Len(ev) THEN TreeFail
    ELSE IF ev[i].Type = "StringEvent"
         THEN TreeOk(i + 1, <<"string", ev[i].Value.s>>)
    ELSE IF ev[i].Type = "NumberEvent"
         THEN TreeOk(i + 1, <<"number", NumericValue(ev[i].Value)>>)
    ELSE IF ev[i].Type = "BooleanEvent"
         THEN TreeOk(i + 1, <<"boolean", ev[i].Value.b>>)
    ELSE IF ev[i].Type = "ObjectStartEvent" THEN BuildMembers(ev, i + 1, <<>>)
    ELSE IF ev[i].Type = "ArrayStartEvent" THEN BuildElements(ev, i + 1, <<>>)
    ELSE TreeFail

BuildMembers(ev, i, m) ==
    IF i > Len(ev) THEN TreeFail
    ELSE IF ev[i].Type = "ObjectEndEvent" THEN TreeOk(i + 1, <<"object", m>>)
    ELSE IF /\ i + 2 <= Len(ev)
            /\ ev[i].Type = "ObjectKeyEvent"
            /\ ev[i + 1].Type = "StringEvent"
            /\ ev[i + 2].Type = "ObjectValueEvent"
         THEN LET v == Build(ev, i + 3)
              IN  IF v.ok THEN BuildMembers(ev, v.i, Put(m, ev[i + 1].Value.s, v.v))
                  ELSE TreeFail
    ELSE TreeFail

BuildElements(ev, i, a) ==
    IF i > Len(ev) THEN TreeFail
    ELSE IF ev[i].Type = "ArrayEndEvent" THEN TreeOk(i + 1, <<"array", a>>)
    ELSE LET v == Build(ev, i)
         IN  IF v.ok THEN BuildElements(ev, v.i, Append(a, v.v)) ELSE TreeFail

\* the tree a consumer rebuilds from the events of one top-level value
Replay(ev) ==
    LET r == Build(ev, 1)
    IN  IF r.ok /\ r.i = Len(ev) + 1 THEN <<"value", r.v>> ELSE <<"no value">>

\* the tree of a reference decoder
RefDecode(d) == Replay(RefDocument(d, 0).ev)

\* C5: for an input that is one valid object or array (strings with any
\* valid escape included), the tree rebuilt from the events Parse sent
\* equals the tree of a reference JSON decoder.
C5_ReplayEqualsReference ==
    (/\ Returned /\ ContentKnown
     /\ RefStream(Content).ok /\ RefStream(Content).n = 1)
        => Replay(emitted) = RefDecode(Content)

----------------------------------------------------------------------------
(* C6 *)

IsNumberEvent(e) == e.Type = "NumberEvent"

\* C6: a Number event carries a float64 exactly when the numeric run that
\* was consumed for it holds '.', 'e' or 'E', and an int64 otherwise.
C6_RepresentationIsLexical ==
    ch # <<>> /\ IsNumberEvent(ch[1])
        => /\ ch[1].Value.t \in {"int64", "float64"}
           /\ ch[1].Value.t = "float64"
                  <=> \E i \in 1..Len(buf) : buf[i] \in {DOT, LOWER_E, UPPER_E}

\* two Number events of one run carry the same number, one as an int64 and
\* the other as a float64
C6_Witness ==
    \E i, j \in 1..Len(received) :
        /\ IsNumberEvent(received[i]) /\ IsNumberEvent(received[j])
        /\ received[i].Value.t = "int64"
        /\ received[j].Value.t = "float64"
        /\ NumericValue(received[i].Value) = NumericValue(received[j].Value)

----------------------------------------------------------------------------
(* C7 *)

\* C7: for an input d1 w d2 of two valid top-level values with whitespace w
\* (possibly none) between them, the events sent are those of d1 followed
\* by those of d2, with no error event and nothing else between.
C7_DocumentsConcatenate ==
    LET d1 == RefDocument(Content, 0)
        d2 == RefDocument(Content, RefSkipWs(Content, d1.i))
    IN  (/\ Returned /\ ContentKnown
         /\ d1.ok /\ d2.ok /\ d2.i = Len(Content))
            => emitted = d1.ev \o d2.ev

----------------------------------------------------------------------------
(* C8 *)

\* C8: when the input is empty or ends inside an unfinished top-level value
\* (Parse stops with the whole input consumed and its end met, anywhere but
\* between two top-level values), the error of the final event is a
\* ParseError with the message "unexpected end of file".
C8_UnexpectedEndOfFile ==
    [][(/\ pc \notin {"ParseNext", "Done"} /\ pc' = "Done"
        /\ p'.src = "io.EOF" /\ p'.off = Len(p'.data)
        /\ ch' # <<>>)
          => /\ ch'[1].Type = "EOFEvent"
             /\ ch'[1].Error.type = "ParseError"
             /\ ch'[1].Error.Message = errUnexpectedEOF]_vars

----------------------------------------------------------------------------
(* C9 *)

\* the bytes of the current document consumed and not pushed back
Consumed == docStart + 1..p.off

ConsumedNewlines == {i \in Consumed : p.data[i] = LF}

LineStart ==
    CHOOSE i \in ConsumedNewlines \cup {docStart} :
        \A j \in ConsumedNewlines : j <= i

\* C9: a ParseError carries Line = 1 + the newlines consumed and not pushed
\* back in the current document, and Position = the bytes consumed and not
\* pushed back since the last such newline, or since the document start.
C9_ErrorCoordinates ==
    p.err.type = "ParseError"
        => /\ p.err.Line = 1 + Cardinality(ConsumedNewlines)
           /\ p.err.Position = p.off - LineStart

----------------------------------------------------------------------------
(* C10 *)

ValueStartTypes ==
    {"StringEvent", "NumberEvent", "BooleanEvent", "ObjectStartEvent",
     "ArrayStartEvent"}

IsErrorEvent(e) == e.Type = "EOFEvent" /\ e.Error # Nil

\* C10: in the events sent, an ObjectKey event is followed at once by the
\* String event of the key and an ObjectValue event by the first event of
\* a value; only the final error event may follow a marker instead.
C10_MarkersAreFollowed ==
    \A i \in 1..Len(emitted) - 1 :
        /\ emitted[i].Type = "ObjectKeyEvent"
              => \/ emitted[i + 1].Type = "StringEvent"
                 \/ IsErrorEvent(emitted[i + 1])
        /\ emitted[i].Type = "ObjectValueEvent"
              => \/ emitted[i + 1].Type \in ValueStartTypes
                 \/ IsErrorEvent(emitted[i + 1])

----------------------------------------------------------------------------
(* C11 *)

\* C11: the worker is blocked in an emission until the consumer takes the
\* event: at most one event is being handed over, and while one is, the
\* only step is its reception; the worker reads no input byte, does not
\* move and sends nothing else.
C11_WorkerBlockedWhilePending ==
    [][/\ Len(ch) <= 1 /\ Len(ch') <= 1
       /\ ch # <<>> => /\ received' = Append(received, ch[1])
                       /\ ch' = <<>>
                       /\ p' = p /\ pc' = pc /\ stack' = stack]_vars

\* the worker holds an event although a byte it pushed back is there to be
\* read, after the consumer has taken earlier events
C11_Witness ==
    /\ ch # <<>> /\ received # <<>>
    /\ pc # "Done"
    /\ p.off < Len(p.data)

----------------------------------------------------------------------------
(* C12 *)

\* C12: once the consumer has stopped receiving while the worker has an
\* event to hand over, the worker stays blocked on that emission: the
\* consumer stays stopped, the event stays pending, the worker does not
\* move, and Parse has not returned.
C12_BlockedForever ==
    [][consumer = "stopped" /\ ch # <<>>
          => /\ consumer' = "stopped"
             /\ ch' = ch
             /\ pc' = pc /\ p' = p /\ stack' = stack
             /\ ~Returned']_vars

\* the consumer took some events and stopped, and the worker is blocked on
\* an event that is not the final one
C12_Witness ==
    /\ consumer = "stopped"
    /\ received # <<>>
    /\ ch # <<>> /\ ch[1].Type # "EOFEvent"
    /\ pc \notin {"Done", "ParseNext"}

----------------------------------------------------------------------------
(* C13 *)

\* C13: two Parsers run at the same time, each on its own input and with
\* its own channel, each deliver the events they deliver when run alone,
\* which for the inputs ["a"], {"a":1} and [10] are the events of the
\* reference grammar (AgreesWithReference).
C13_ParsersAreIndependent ==
    /\ (Returned /\ p.src = "io.EOF" /\ p.data = profile.script)
          => emitted = RefStream(p.data).ev
    /\ (Returned2 /\ w2.p.src = "io.EOF" /\ w2.p.data = X_Number10)
          => emitted2 = RefStream(w2.p.data).ev

----------------------------------------------------------------------------
(* C14 *)

\* C14: when the end of the input is met right after a complete top-level
\* value (trailing whitespace skipped), Parse stops and no event it has
\* sent carries an error, however many values came before.
C14_CleanEndWithoutError ==
    [][pc = "ParseNext" /\ pc' = "Done" /\ p'.src = "io.EOF" /\ p'.err = IoEOF
          => /\ ch' = <<>>
             /\ \A i \in 1..Len(received) : received[i].Error = Nil]_vars

\* three top-level values and trailing whitespace have been read to the
\* end of the input
C14_Witness ==
    /\ Returned /\ p.err = IoEOF
    /\ RefStream(p.data).ok /\ RefStream(p.data).n >= 3
    /\ isSpace(Last(p.data))

----------------------------------------------------------------------------
(* C15 *)

\* C15: when the first byte b of a document is neither '{' nor '[', the
\* only event sent for the document is the final EOFEvent, with the
\* ParseError "unexpected character b".
C15_OnlyContainersAtTopLevel ==
    [][(/\ pc = "Parse"
        /\ p'.off = p.off + 1
        /\ p'.data[p'.off] \notin {LBRACE, LBRACKET})
          => /\ pc' = "Done"
             /\ ch' # <<>>
             /\ ch'[1].Type = "EOFEvent"
             /\ ch'[1].Error.type = "ParseError"
             /\ ch'[1].Error.Message = "unexpected character %c"
             /\ ch'[1].Error.arg = p'.data[p'.off]]_vars

----------------------------------------------------------------------------
(* C16 *)

Opened(events) ==
    {i \in 1..Len(events) :
        events[i].Type \in {"ObjectStartEvent", "ArrayStartEvent"}}

Closed(events) ==
    {i \in 1..Len(events) :
        events[i].Type \in {"ObjectEndEvent", "ArrayEndEvent"}}

\* C16: an EOFEvent is the last event of the run, and once a failure is
\* recorded the worker is at the end of Parse with that failure in the
\* EOFEvent: nothing is sent for the enclosing productions and no further
\* top-level value is read.
C16_ErrorIsTerminal ==
    /\ \A i \in EOFEvents(emitted) : i = Len(emitted) /\ pc = "Done"
    /\ p.err \notin {Nil, IoEOF}
          => /\ pc = "Done"
             /\ emitted # <<>>
             /\ Last(emitted) = Event("EOFEvent", NilValue, p.err)

\* a failure inside two open containers: the EOFEvent came right away and
\* no container was closed
C16_Witness ==
    /\ Returned /\ received # <<>>
    /\ Last(received).Type = "EOFEvent"
    /\ Cardinality(Opened(received)) >= 2
    /\ Closed(received) = {}

----------------------------------------------------------------------------
(* C17 *)

\* C17: a readByte followed by unreadByte leaves line and position as they
\* were before the readByte, also when the byte is a newline.  (The steps
\* of the worker that end in unreadByte read one byte and push it back;
\* the one between two top-level values then resets the cursor.)
C17_UnreadRestoresCursor ==
    [][(p'.prev = "unread" /\ p' # p /\ pc # "ParseNext")
          => p'.line = p.line /\ p'.position = p.position]_vars

----------------------------------------------------------------------------
(* C18 *)

\* C18: every unreadByte comes right after a readByte of the same Parser
\* that returned a byte, with no other unreadByte and no failed read in
\* between.
C18_UnreadFollowsRead == ~p.misuse

\* readNumber has pushed the byte that ended a run back and is sending the
\* Number event
C18_Witness ==
    /\ ch # <<>> /\ IsNumberEvent(ch[1])
    /\ p.prev = "unread"
    /\ p.off < Len(p.data)

----------------------------------------------------------------------------
(* C19 *)

\* C19: when Parse is about to read the first byte of a top-level value,
\* the first one or a later one reached after the separating whitespace,
\* the cursor counts as a new Parser's does: line 1, position 0, no newline
\* to push back over and no error.  What Parse reports from there on is a
\* function of these and of the bytes read from there, so an error in a
\* later document has the coordinates it would have with that document as
\* the whole input.
C19_CursorResetBetweenDocuments ==
    pc = "Parse"
       => /\ p.off = docStart
          /\ p.line = NewParser.line
          /\ p.position = NewParser.position
          /\ p.unreadChangesLine = NewParser.unreadChangesLine
          /\ p.err = NewParser.err

\* Parse is at the first byte of a second document, after a newline
C19_Witness ==
    /\ pc = "Parse"
    /\ docStart > 0
    /\ p.data[docStart] = LF
    /\ received # <<>>

----------------------------------------------------------------------------
(* C20 *)

\* the last n bytes read
LastRead(n) == IF p.off >= n THEN SubSeq(p.data, p.off - n + 1, p.off) ELSE <<>>

\* C20: a Boolean event is sent with true only when the four bytes just
\* read spell "true", and with false only when the five bytes just read
\* spell "false".
C20_BooleanSpelling ==
    (ch # <<>> /\ ch[1].Type = "BooleanEvent")
       => \/ /\ ch[1].Value = BoolValue(TRUE)
             /\ LastRead(4) = <<LOWER_T, LOWER_R, LOWER_U, LOWER_E>>
          \/ /\ ch[1].Value = BoolValue(FALSE)
             /\ LastRead(5) = <<LOWER_F, LOWER_A, LOWER_L, LOWER_S, LOWER_E>>

----------------------------------------------------------------------------
(* C21 *)

\* the number of backslashes at the end of the raw bytes b
RECURSIVE TrailingBackslashes(_)
TrailingBackslashes(b) ==
    IF b = <<>> \/ b[Len(b)] # BACKSLASH THEN 0
    ELSE 1 + TrailingBackslashes(SubSeq(b, 1, Len(b) - 1))

\* C21: a quote read inside a string right after a backslash that escapes
\* it does not end the string: readString takes it into the raw bytes and
\* reads on.
C21_EscapedQuoteStaysInString ==
    [][(/\ pc = "StringBody" /\ p'.off = p.off + 1 /\ p'.prev = "read"
        /\ p'.data[p'.off] = QUOTE
        /\ TrailingBackslashes(buf) % 2 = 1)
          => pc' = "StringBody" /\ buf' = Append(buf, QUOTE) /\ ch' = <<>>]_vars

----------------------------------------------------------------------------
(* C22 *)

U1F600 == <<240, 159, 152, 128>>    \* U+1F600, the pair D83D DE00, in UTF-8
UFFFD == <<239, 191, 189>>          \* U+FFFD in UTF-8

\* the pieces that are text: letters and well-formed escapes
TextPieces ==
    {P_Letter, P_Escape0041, P_Escape00e9, P_High, P_Low, P_Newline}

\* the raw bytes as a sequence of such pieces, if they are one (no piece
\* of text is the beginning of another)
RECURSIVE TextPiecesOf(_)
TextPiecesOf(raw) ==
    LET m == {x \in TextPieces :
                Len(x) <= Len(raw) /\ SubSeq(raw, 1, Len(x)) = x}
        x == CHOOSE y \in m : TRUE
        rest == TextPiecesOf(SubSeq(raw, Len(x) + 1, Len(raw)))
    IN  IF raw = <<>> THEN [ok |-> TRUE, ps |-> <<>>]
        ELSE IF m = {} THEN [ok |-> FALSE, ps |-> <<>>]
        ELSE [ok |-> rest.ok, ps |-> <<x>> \o rest.ps]

\* the raw bytes of the string of the input ["..."]
RawString == SubSeq(profile.script, 3, Len(profile.script) - 2)

\* the text a piece stands for by itself
PieceText(piece) ==
    CASE piece = P_Letter -> <<97>>
      [] piece = P_Escape0041 -> <<65>>
      [] piece = P_Escape00e9 -> <<195, 169>>
      [] piece = P_Newline -> <<10>>
      [] piece \in {P_High, P_Low} -> UFFFD

\* the text a sequence of pieces stands for: a high surrogate and the low
\* surrogate right after it are one code point, every other piece stands
\* for itself
RECURSIVE SeqText(_)
SeqText(ps) ==
    IF ps = <<>> THEN <<>>
    ELSE IF Len(ps) >= 2 /\ ps[1] = P_High /\ ps[2] = P_Low
    THEN U1F600 \o SeqText(Tail(Tail(ps)))
    ELSE PieceText(Head(ps)) \o SeqText(Tail(ps))

\* C22: once the closing quote of a string of letters and \uXXXX escapes
\* has been read, the String event sent for it carries: the one combined
\* code point for a high surrogate followed at once by a low surrogate,
\* U+FFFD for any other surrogate, with the pieces after it decoded as
\* they stand, and every other escape decoded by itself, in order.
C22_SurrogatePairs ==
    (p.off >= Len(profile.script) - 1 /\ TextPiecesOf(RawString).ok)
       => /\ Len(emitted) >= 2
          /\ emitted[2] = Event("StringEvent",
                                StringValue(SeqText(TextPiecesOf(RawString).ps)),
                                Nil)

\* the String event of a pair followed by a lone high surrogate is sent
C22_Witness ==
    /\ profile.script = StringScript(<<P_High, P_Low, P_High>>)
    /\ ch # <<>>
    /\ ch[1] = Event("StringEvent", StringValue(U1F600 \o UFFFD), Nil)

----------------------------------------------------------------------------
(* C23 *)

\* the bytes that may follow a backslash
EscapeLetters ==
    {QUOTE, BACKSLASH, SLASH, APOSTROPHE, LOWER_B, LOWER_F, LOWER_N, LOWER_R,
     LOWER_T, LOWER_U}

\* from index r on (counted from 0) the raw bytes s hold a backslash that
\* is the last byte, or is followed by no escape letter, or by u and less
\* than four hexadecimal digits
RECURSIVE BadEscapeFrom(_, _)
BadEscapeFrom(s, r) ==
    IF r >= Len(s) THEN FALSE
    ELSE IF s[r + 1] # BACKSLASH THEN BadEscapeFrom(s, r + 1)
    ELSE IF r + 1 >= Len(s) THEN TRUE
    ELSE IF s[r + 2] \notin EscapeLetters THEN TRUE
    ELSE IF s[r + 2] # LOWER_U THEN BadEscapeFrom(s, r + 2)
    ELSE IF Len(s) - r < 6 \/ \E i \in 3..6 : HexDigit(s[r + i]) < 0 THEN TRUE
    ELSE BadEscapeFrom(s, r + 6)

Malformed(s) == (\E i \in 1..Len(s) : s[i] < SPACE) \/ BadEscapeFrom(s, 0)

UnableToDecode == "unable to decode string into a valid UTF-8 string"

\* C23: for a string whose raw bytes hold a byte below 0x20 or a malformed
\* escape no String event is sent, and when Parse ends with bytes of the
\* input still to come it ends with the ParseError "unable to decode
\* string into a valid UTF-8 string".
C23_MalformedStringFails ==
    Malformed(RawString)
       => /\ \A i \in 1..Len(emitted) : emitted[i].Type # "StringEvent"
          /\ (pc = "Done" /\ p.src = "open")
                => /\ emitted # <<>>
                   /\ Last(emitted).Type = "EOFEvent"
                   /\ Last(emitted).Error.type = "ParseError"
                   /\ Last(emitted).Error.Message = UnableToDecode

----------------------------------------------------------------------------
(* C24 *)

\* a digit run, read as a number without leading zeros, is above the digit
\* run `limit'
Above(d, limit) ==
    LET n == StripLeadingZeros(d)
    IN  \/ Len(n) > Len(limit)
        \/ Len(n) = Len(limit) /\ DigitsLess(limit, n)

\* the sign and the digits of the run of the input [n]
RunSign == IF profile.script[2] \in {MINUS, PLUS} THEN <<profile.script[2]>> ELSE <<>>
RunDigits ==
    LET run == SubSeq(profile.script, 2 + Len(RunSign), Len(profile.script) - 1)
    IN  [i \in 1..Len(run) |-> run[i] - ZERO]

\* the run stands for a number below -2^63 or above 2^63 - 1
OutOfRange ==
    IF RunSign = <<MINUS>> THEN Above(RunDigits, D_2to63)
    ELSE Above(RunDigits, D_MaxInt64)

RangeError == "strconv.ParseInt: value out of range"

\* C24: for a run of digits, with or without sign, that stands for a
\* number outside the int64 range no Number event is ever sent, and once
\* the byte after the run has been read Parse has ended with the
\* ParseError of strconv.ParseInt for the run; a run inside the range,
\* however long, is sent as that int64.
C24_IntegerOverflowFails ==
    /\ OutOfRange => \A i \in 1..Len(emitted) : ~IsNumberEvent(emitted[i])
    /\ p.data = profile.script
          => /\ Len(emitted) >= 2
             /\ OutOfRange => pc = "Done" /\ Len(emitted) = 2
             /\ emitted[2] =
                  IF OutOfRange
                  THEN Event("EOFEvent", NilValue,
                             ParseError(RangeError, -1, buf, 1, Len(profile.script) - 1))
                  ELSE Event("NumberEvent",
                             IntValue(RunSign = <<MINUS>>,
                                      StripLeadingZeros(RunDigits)), Nil)

\* Parse is sending the error for the run 9223372036854775808
C24_Witness ==
    /\ profile.script = NumberScript(<<>>, D_2to63)
    /\ ch # <<>>
    /\ ch[1].Type = "EOFEvent"
    /\ ch[1].Error.Message = RangeError
    /\ received = <<Event("ArrayStartEvent", NilValue, Nil)>>

----------------------------------------------------------------------------
(* C25 *)

\* C25: when a read of the byte source has failed with an error other
\* than the end of the input, Parse ends with an EOFEvent whose error is a
\* ParseError holding the line and position of the cursor.
C25_ReadErrorIsParseError ==
    (p.src = "io.err" /\ pc = "Done")
       => /\ emitted # <<>>
          /\ Last(emitted).Type = "EOFEvent"
          /\ Last(emitted).Error.type = "ParseError"
          /\ Last(emitted).Error.Line = p.line
          /\ Last(emitted).Error.Position = p.position

----------------------------------------------------------------------------
(* C26 *)

\* C26: no event sent has the type NullEvent or UnknownEvent, and when
\* readValue finds the letter n where a value starts, Parse ends with the
\* ParseError "unexpected character n".
C26_NoNullEvent ==
    [][/\ \A i \in 1..Len(ch') : ch'[i].Type \notin {"NullEvent", "UnknownEvent"}
       /\ (/\ pc = "Value" /\ p'.off = p.off + 1 /\ p'.prev = "read"
           /\ p'.data[p'.off] = LOWER_N)
             => /\ pc' = "Done"
                /\ ch' = <<Event("EOFEvent", NilValue,
                                 ParseError("unexpected character %c", LOWER_N,
                                            <<>>, p'.line, p'.position))>>]_vars

\* Parse is sending the error for an n that follows a comma in an array
C26_Witness ==
    /\ ch # <<>>
    /\ ch[1].Type = "EOFEvent"
    /\ ch[1].Error.Message = "unexpected character %c"
    /\ ch[1].Error.arg = LOWER_N
    /\ p.off >= 2 /\ p.data[p.off - 1] = COMMA
    /\ \E i \in 1..Len(received) : IsNumberEvent(received[i])

----------------------------------------------------------------------------
(* C27 *)

\* C27: a whitespace byte read where a top-level value is to start, before
\* the first value as between two values, is skipped: no event is sent
\* for it and Parse goes on to the next byte.
C27_LeadingWhitespaceSkipped ==
    [][(/\ pc \in {"Parse", "ParseNext"}
        /\ p'.off = p.off + 1 /\ p'.prev = "read"
        /\ isSpace(p'.data[p'.off]))
          => pc' \in {"Parse", "ParseNext"} /\ ch' = <<>>]_vars

----------------------------------------------------------------------------
(* C28 *)

\* the index of the last byte of d[1..n] that is no whitespace, 0 if none
RECURSIVE PrevNonWs(_, _)
PrevNonWs(d, n) ==
    IF n = 0 \/ ~isSpace(d[n]) THEN n ELSE PrevNonWs(d, n - 1)

\* the last byte read that is no whitespace is a comma, and not a byte of
\* a string
AfterSeparator ==
    LET k == PrevNonWs(p.data, p.off)
    IN  /\ pc # "StringBody"
        /\ k > 0
        /\ p.data[k] = COMMA

\* C28: a closing brace or bracket read after a comma, with nothing but
\* whitespace between them, ends Parse with a ParseError: no ObjectEnd or
\* ArrayEnd event is sent for it.
C28_NoTrailingComma ==
    [][(/\ AfterSeparator
        /\ p'.off = p.off + 1 /\ p'.prev = "read"
        /\ p'.data[p'.off] \in {RBRACE, RBRACKET})
          => /\ pc' = "Done"
             /\ Len(ch') = 1
             /\ ch'[1].Type = "EOFEvent"
             /\ ch'[1].Error.type = "ParseError"
             /\ ch'[1].Error.Line = p'.line
             /\ ch'[1].Error.Position = p'.position]_vars


----------------------------------------------------------------------------
(* C29 *)

\* C29: with a consumer that keeps receiving, Parse returns in the end,
\* and from then on every event it sent has been received: nothing is
\* left on the channel.
C29_ParseReturns == <>[](Returned /\ received = emitted)

\* Parse has returned at the end of the two documents of the README, all
\* of whose events the consumer has received
C29_Witness ==
    /\ Returned
    /\ p.data = T_ExampleMulti
    /\ p.err = IoEOF
    /\ Len(received) >= 8
    /\ Last(received).Type = "ObjectEndEvent"

----------------------------------------------------------------------------
(* C30 *)

\* C30: when Parse has returned without an error event, the byte source
\* has reported the end of the input and every byte it delivered has been
\* read.
C30_CleanEndOnlyAtEndOfInput ==
    (Returned /\ \A i \in 1..Len(received) : ~IsErrorEvent(received[i]))
       => p.src = "io.EOF" /\ p.off = Len(p.data)

----------------------------------------------------------------------------
(* C31 *)

IsPrefix(a, b) == Len(a) <= Len(b) /\ SubSeq(b, 1, Len(a)) = a

NonTerminal(events) == SelectSeq(events, LAMBDA e : e.Type # "EOFEvent")

\* C31: of two runs, as long as every read has returned the same to both,
\* the events sent are the same, whatever the scratch buffer held at the
\* start; and once the input of the first run has ended where the input
\* of the second goes on, the events of the first run other than its
\* EOFEvent are a prefix of the events of the second.
C31_EventsDependOnBytesRead ==
    /\ Together => emitted = emitted2
    /\ ~Together => IsPrefix(NonTerminal(emitted), emitted2)

\* the first run's input was cut inside the second document of the README
\* example, after six events; the second run, which began with a used
\* scratch buffer, has read the whole input and sent the events of both
\* documents
C31_Witness ==
    /\ ~Together
    /\ w2.p.data = T_ExampleMulti
    /\ Returned2
    /\ Returned
    /\ Len(NonTerminal(received)) >= 6
    /\ IsErrorEvent(Last(received))
    /\ Len(w2.received) > Len(received)
    /\ \E i \in 1..Len(received) : received[i].Type = "StringEvent"
    /\ Len(p.data) > 14 /\ Len(p.data) < Len(w2.p.data)

----------------------------------------------------------------------------
(* C32 *)

\* the containers open after `events', innermost last
RECURSIVE OpenAfter(_)
OpenAfter(events) ==
    IF events = <<>> THEN <<>>
    ELSE LET before == OpenAfter(SubSeq(events, 1, Len(events) - 1))
             e == Last(events)
         IN CASE e.Type = "ObjectStartEvent" -> Append(before, "object")
              [] e.Type = "ArrayStartEvent" -> Append(before, "array")
              [] e.Type \in {"ObjectEndEvent", "ArrayEndEvent"} ->
                    SubSeq(before, 1, Len(before) - 1)
              [] OTHER -> before

Innermost(events) ==
    LET open == OpenAfter(events)
    IN IF open = <<>> THEN "none" ELSE Last(open)

\* every ObjectEnd or ArrayEnd closes the innermost open container, which
\* is of its kind
EndsMatch ==
    \A i \in 1..Len(emitted) :
        /\ emitted[i].Type = "ObjectEndEvent"
              => Innermost(SubSeq(emitted, 1, i - 1)) = "object"
        /\ emitted[i].Type = "ArrayEndEvent"
              => Innermost(SubSeq(emitted, 1, i - 1)) = "array"

\* ObjectKey and ObjectValue are sent only inside an object
MarkersInObject ==
    \A i \in 1..Len(emitted) :
        emitted[i].Type \in {"ObjectKeyEvent", "ObjectValueEvent"}
           => Innermost(SubSeq(emitted, 1, i - 1)) = "object"

\* when Parse has returned without an error event, no container is open
NothingLeftOpen ==
    (Returned /\ \A i \in 1..Len(received) : ~IsErrorEvent(received[i]))
       => OpenAfter(received) = <<>>

\* C32, as stated: in the events sent, every ObjectEnd or ArrayEnd closes
\* the innermost open container and is of its kind, ObjectKey and
\* ObjectValue occur only inside an object, and when Parse has returned
\* without an error event no container is left open.
C32_ContainersBalanced ==
    /\ EndsMatch
    /\ MarkersInObject
    /\ NothingLeftOpen

----------------------------------------------------------------------------
(* C33 *)

ValueTypes == {"StringEvent", "NumberEvent", "BooleanEvent"}

\* C33: every event sent has an Error that is not nil exactly when it is
\* an EOFEvent, and a Value that is not nil exactly when it is a String
\* event (a string), a Number event (an int64 or a float64) or a Boolean
\* event (a bool).
C33_FieldsByType ==
    \A i \in 1..Len(emitted) :
        LET e == emitted[i]
        IN  /\ e.Error # Nil <=> e.Type = "EOFEvent"
            /\ e.Value # NilValue <=> e.Type \in ValueTypes
            /\ e.Type = "StringEvent" => e.Value.t = "string"
            /\ e.Type = "NumberEvent" => e.Value.t \in {"int64", "float64"}
            /\ e.Type = "BooleanEvent" => e.Value.t = "bool"

\* a run that has sent structural events, a marker, a String event, a
\* Number event and, last, an EOFEvent
C33_Witness ==
    /\ Returned
    /\ Len(received) >= 5
    /\ Last(received).Type = "EOFEvent"
    /\ \E i, j, k \in 1..Len(received) :
          /\ received[i].Type = "StringEvent"
          /\ received[j].Type = "NumberEvent"
          /\ received[k].Type = "ObjectValueEvent"

====
